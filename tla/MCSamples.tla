------------------------------ MODULE MCSamples ------------------------------
EXTENDS Samples

Num(int, neg, bucket, class) ==
  [t |-> "number", int |-> int, negZero |-> neg, bucket |-> bucket, class |-> class]
Str(length, class) == [t |-> "string", length |-> length, class |-> class]
Obj(fields) == [t |-> "object", fields |-> fields]
Arr(items) == [t |-> "array", items |-> items]
F(key, value) == [key |-> key, value |-> value]
Null == [t |-> "null"]
One == Num(TRUE, FALSE, "small_positive", "clean")
Half == Num(FALSE, FALSE, "small_positive", "clean")
MinusZero == Num(TRUE, TRUE, "zero", "clean")
Card == Num(TRUE, FALSE, "large_positive", "secret")
Text == Str(2, "clean")
Token == Str(5, "secret")
Mail == Str(4, "pii")
Broken == [t |-> "broken", reason |-> "utf8_error"]

\* One document for every branch of the parser, the profile and the redaction.
MCDocs ==
  { One, Arr(<<>>), Obj(<<>>), Broken,
    Obj(<<F("a", One)>>),
    Obj(<<F("a", Half), F("b", Text)>>),
    Obj(<<F("a", Null), F("b", Arr(<<>>))>>),
    Obj(<<F("b", Arr(<<One, Text>>))>>),
    Obj(<<F("b", Arr(<<Obj(<<F("a", One)>>), Obj(<<>>)>>))>>),
    Obj(<<F("b", Arr(<<Obj(<<F("a", One)>>), Obj(<<F("a", Half)>>)>>))>>),
    Obj(<<F("b", Arr(<<MinusZero, MinusZero, Arr(<<Arr(<<>>)>>)>>))>>),
    Arr(<<One, One, Obj(<<F("a", One), F("a", Half), F("b", One)>>)>>),
    Arr(<<Arr(<<One, Half>>), Arr(<<>>)>>),
    Arr(<<One, One, Str(6, "clean")>>),
    Arr(<<One, One, Obj(<<F("overlong_key", One)>>)>>),
    Obj(<<F("a", One), F("a", Half)>>),
    Obj(<<F("a", One), F("b", One), F("c", One)>>),
    Obj(<<F("overlong_key", One)>>),
    Obj(<<F("a", Obj(<<F("a", Obj(<<F("a", One)>>))>>))>>),
    Obj(<<F("a", Obj(<<F("a", Obj(<<F("a", Arr(<<>>))>>))>>))>>),
    Obj(<<F("secret", Obj(<<F("a", Token)>>)), F("x@y", Token)>>),
    Obj(<<F("a", Card), F("b", Mail)>>),
    Arr(<<Token, Mail>>) }
MCPayloads ==
  {[source |-> "trusted", size |-> 10, trailing |-> FALSE, doc |-> d] : d \in MCDocs}
    \cup {[source |-> "other", size |-> 10, trailing |-> FALSE, doc |-> Arr(<<Token>>)],
          [source |-> "trusted", size |-> 10, trailing |-> TRUE, doc |-> One],
          [source |-> "trusted", size |-> 30, trailing |-> FALSE, doc |-> One],
          [source |-> "trusted", size |-> 40, trailing |-> FALSE, doc |-> One]}
MCOffsets == 0..1
MCLimits == [bytes |-> 39, depth |-> 3, fields |-> 2, keyLen |-> 8, stringLen |-> 5, inspect |-> 2]
MCKeyLength(k) == IF k = "overlong_key" THEN 12 ELSE 3
MCKeyClass(k) == CASE k = "secret" -> "name" [] k = "x@y" -> "data" [] OTHER -> "clean"
MCSampleSize(d) == IF d.t = "array" THEN Len(d.items) ELSE 1

----------------------------------------------------------------------------
(* What the operators of Documents promise, over every accepted payload and
   every merge of two of them *)

Accepted == {n \in {ParseBounded(p) : p \in MCPayloads} : ~IsQuarantined(n)}
Singles == {Profile(n) : n \in Accepted}
Pairs == {Merge(a, b) : a, b \in Singles}

\* A profile that is old enough stays so when the same documents arrive again,
\* and a leaf is required of a merge only if both sides that know it require it
\* (elements of arrays excepted).
ASSUME SettlesOnEvidence ==
  /\ \A pr \in Pairs, min \in 0..2, ratio \in {<<1, 2>>, <<1, 1>>} :
       Settled(pr, min, ratio) <=> Settled(Merge(pr, pr), min, ratio)
  /\ \A a, b \in Singles : \A p \in RequiredLeaves(Merge(a, b)) :
       p = <<>> \/ Last(p) = Elem \/ (p \in DOMAIN a.fields \cap DOMAIN b.fields => ~Optional(a, p) /\ ~Optional(b, p))

\* A snapshot is addressed by what it was built from and not by when, names only
\* positions a document can be asked for, and never more values than documents.
ASSUME SnapshotIsItsProfile ==
  \A pr \in Pairs :
    LET snap == BuildSnapshot("s", "c", pr, 1)
    IN /\ snap.id = BuildSnapshot("s", "c", pr, 2).id
       /\ \A p \in DOMAIN snap.leaves :
            LET l == snap.leaves[p]
            IN /\ l.present <= snap.count /\ l.nulls = l.types["null"]
               /\ (l.mask # {}) <=> (l.types["number"] > 0)
               /\ ~\E q \in DOMAIN snap.leaves : q # p /\ IsPrefix(p, q)

\* Sketches: a token's hash is made up of the length of its path and its type.
Bits == 0..3
TypeCode == [t \in Types |-> CASE t = "null" -> 1 [] t = "bool" -> 2 [] t = "number" -> 5
                               [] t = "string" -> 9 [] t = "array" -> 14 [] OTHER -> 7]
TokenHash == [k \in UNION {Tokens(GeneralizedCanonical(pr)) : pr \in Pairs} |->
                {b \in Bits : ((TypeCode[k[2]] + 3 * Len(k[1])) \div 2^b) % 2 = 1}]
Sketched == <<One, Obj(<<F("a", One)>>), Obj(<<F("a", Half), F("b", Text)>>), Obj(<<F("b", Arr(<<One, Text>>))>>),
              Arr(<<Token, Mail>>)>>
Sketches == [i \in 1..5 |->
  SimHash(GeneralizedCanonical(Profile(ParseBounded([size |-> 10, trailing |-> FALSE, doc |-> Sketched[i]]))),
          TokenHash, Bits)]

\* A schema is its neighbours' neighbour, at the distance it sees them at; the
\* answer is nearest first, never holds the query, and a limit cuts its tail.
ASSUME NeighboursAreMutual ==
  LET all(q, d) == RankNeighbours(q, Sketches, [i \in DOMAIN Sketches |-> i], d, Len(Sketches))
  IN \A q \in DOMAIN Sketches : \A d \in 0..3 :
       /\ \A i \in DOMAIN all(q, d) :
            /\ all(q, d)[i] # q
            /\ q \in {all(all(q, d)[i], d)[j] : j \in DOMAIN all(all(q, d)[i], d)}
       /\ IsPrefix(all(q, d), all(q, d + 1))
       /\ RankNeighbours(q, Sketches, [i \in DOMAIN Sketches |-> i], d, 2)
            = SubSeq(all(q, d), 1, Min({2, Len(all(q, d))}))
==============================================================================
