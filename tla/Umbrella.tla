------------------------------ MODULE Umbrella ------------------------------
(***************************************************************************)
(* Governance of gold umbrellas: the proposal controller, the people who   *)
(* approve and reject, and the annotations both read, over one Redis.      *)
(* Every command is a step, and any request may end after any of them.     *)
(*                                                                         *)
(* An umbrella is named by the signature its cohort shares (the id is a    *)
(* hash of it); its version is always 1 and its contents are its fields.   *)
(***************************************************************************)
EXTENDS Projection

CONSTANTS
  Children,            \* the registry's schemas, in listing order
  NodesOf,             \* child -> its canonical nodes
  Notes,               \* child -> the annotations it may be given
  FirstNote,           \* child -> its annotation at the start
  ClusterOf,           \* child -> its domain cluster, as a set of at most one
  LeavesOf,            \* child -> its value profile
  Readings,            \* the values events carry, as fractions
  DomainGateEnforce, EnforceValueGuard,
  CfidOrder,           \* canonical field ids in string order
  Proposers, People,
  Nothing,
  MaxNotes, MaxDeaths  \* bounds: re-annotations, requests that die

ASSUME ChildrenAssumption == \A i, j \in DOMAIN Children : Children[i] = Children[j] => i = j
\* A canonical schema is a tree: a path names one node, and only below an object
\* are there others.
ASSUME NodesAssumption ==
  \A i \in DOMAIN Children : LET nodes == NodesOf[Children[i]] IN
    /\ nodes \in Seq({nodes[j] : j \in DOMAIN nodes})
    /\ \A j, k \in DOMAIN nodes : /\ nodes[j].path = nodes[k].path => j = k
                                  /\ ProperPrefix(nodes[j].path, nodes[k].path) => InTypes(nodes[j], "object")
\* Ids are sorted and deduplicated, and every child has an annotation, empty or not.
ASSUME CfidAssumption ==
  /\ Children \in Seq({Children[i] : i \in DOMAIN Children})
  /\ CfidOrder \in Seq({CfidOrder[i] : i \in DOMAIN CfidOrder})
  /\ \A i, j \in DOMAIN CfidOrder : CfidOrder[i] = CfidOrder[j] => i = j
  /\ DOMAIN FirstNote = {Children[i] : i \in DOMAIN Children}
ASSUME ReadingsAssumption == Readings \subseteq Int \X Int
ASSUME BoundsAssumption == MaxNotes \in Nat /\ MaxDeaths \in Nat

VARIABLES
  notes,       \* the active annotation of a child
  umbrellas,   \* deblob:umbrella:<id>: state and fields
  listing,     \* deblob:umbrellas:<state>
  transforms,  \* deblob:umbrella-transform:<id>:<child>, and its index
  lineage,     \* deblob:umbrella-lineage:<id>
  proposer,    \* where propose_umbrellas is, and what it holds
  person,      \* where an approve or reject is, and what it holds
  renoted, deaths
umbrellaVars == <<notes, umbrellas, listing, transforms, lineage, proposer, person, renoted, deaths>>
umbrellaStore == <<umbrellas, listing, transforms, lineage>>

ChildIds == {Children[i] : i \in DOMAIN Children}
States == {"provisional", "active", "rejected"}
IdleProposer == [pc |-> "idle", seen |-> <<>>, todo |-> {}, id |-> Nothing, fields |-> <<>>, queue |-> <<>>]
IdlePerson == [pc |-> "idle", id |-> Nothing, fields |-> <<>>, todo |-> {}, bundle |-> <<>>, sound |-> TRUE]

UmbrellaInit ==
  /\ notes = FirstNote
  /\ umbrellas = <<>> /\ transforms = <<>> /\ lineage = <<>>
  /\ listing = [s \in States |-> {}]
  /\ proposer = [p \in Proposers |-> IdleProposer] /\ person = [h \in People |-> IdlePerson]
  /\ renoted = 0 /\ deaths = 0

----------------------------------------------------------------------------
(* The store *)

Known(id) == id \in DOMAIN umbrellas
With(f, k, v) == [x \in DOMAIN f \cup {k} |-> IF x = k THEN v ELSE f[x]]
TransformsOf(id) == IF id \in DOMAIN transforms THEN transforms[id] ELSE <<>>

\* Mutant: promote_bundle takes the id out of the provisional listing only.
Bug_Relist(id, s) == [t \in States |-> IF t = s THEN listing[t] \cup {id}
                                       ELSE IF t = "provisional" THEN listing[t] \ {id} ELSE listing[t]]

\* One state index holds the id: SADD to it, SREM from the others.
Relist(id, s) == [t \in States |-> IF t = s THEN listing[t] \cup {id} ELSE listing[t] \ {id}]

PutUmbrella(id, fields, s) ==
  umbrellas' = With(umbrellas, id, [state |-> s, fields |-> fields]) /\ listing' = Relist(id, s)
SetState(id, s) ==
  umbrellas' = [umbrellas EXCEPT ![id].state = s] /\ listing' = Relist(id, s)
PutTransform(id, c, t) == transforms' = With(transforms, id, With(TransformsOf(id), c, t))
\* MULTI: the umbrella becomes active and every transform of the bundle is written.
PromoteBundle(id, fields, bundle) ==
  /\ PutUmbrella(id, fields, "active")
  /\ transforms' = With(transforms, id,
       [c \in DOMAIN TransformsOf(id) \cup DOMAIN bundle |->
          IF c \in DOMAIN bundle THEN bundle[c] ELSE TransformsOf(id)[c]])
PutLineageAssertion(id, members) == lineage' = With(lineage, id, members)

\* The annotation of a child changes (an append to the semantic store).
Annotate(c, n) ==
  /\ renoted < MaxNotes /\ n # notes[c]
  /\ notes' = [notes EXCEPT ![c] = n] /\ renoted' = renoted + 1
  /\ UNCHANGED <<umbrellaStore, proposer, person, deaths>>

----------------------------------------------------------------------------
(* propose_umbrellas *)

FieldsNow(c) == ChildFields(NodesOf[c], notes[c])
Proposes(p, r) == proposer' = [proposer EXCEPT ![p] = r] /\ UNCHANGED <<notes, person, renoted, deaths>>

\* The schemas of a snapshot that share a signature, in listing order, and the
\* signatures that two of them share.
Cohort(seen, sig) ==
  ElementsAt(Children, {i \in DOMAIN Children : seen[Children[i]] # <<>> /\ FieldSig(seen[Children[i]]) = sig})
Sigs(seen) == {sig \in {FieldSig(seen[c]) : c \in {c \in ChildIds : seen[c] # <<>>}} : Len(Cohort(seen, sig)) >= 2}

\* Page by page, schema by schema: the annotated fields of each.
Gather(p) ==
  LET at == Len(proposer[p].seen) + 1
  IN /\ proposer[p].pc \in {"idle", "gather"} /\ at <= Len(Children)
     /\ Proposes(p, [proposer[p] EXCEPT !.pc = "gather", !.seen = Append(@, Annotated(FieldsNow(Children[at])))])
     /\ UNCHANGED umbrellaStore
Snapshot(p) == [c \in ChildIds |-> proposer[p].seen[CHOOSE i \in DOMAIN Children : Children[i] = c]]
Group(p) ==
  /\ proposer[p].pc = "gather" /\ Len(proposer[p].seen) = Len(Children)
  /\ Proposes(p, [proposer[p] EXCEPT !.pc = "check", !.todo = Sigs(Snapshot(p))])
  /\ UNCHANGED umbrellaStore

\* The ids of a signature, in order.
CfidsOf(sig) == ElementsAt(CfidOrder, {i \in DOMAIN CfidOrder : \E s \in sig : s[1] = CfidOrder[i]})
\* What a cohort comes to: the fields of its umbrella and the transforms that
\* verify, one per member.
CohortProposal(seen, sig) ==
  LET members == Cohort(seen, sig)
      views == [i \in DOMAIN members |-> seen[members[i]]]
      fields == BuildUmbrella(CfidsOf(sig), views)
      all == [i \in DOMAIN members |-> [child |-> members[i], t |-> AssembleTransform(views[i], fields)]]
  IN [fields |-> fields,
      queue |-> ElementsAt(all, {i \in DOMAIN all : VerifyStatic(all[i].t, fields, views[i]) = {}}),
      crossDomain |-> Cardinality(UNION {ClusterOf[members[i]] : i \in DOMAIN members}) > 1,
      contradicted |-> Contradicted(fields, views, [i \in DOMAIN members |-> LeavesOf[members[i]]])]
Suppressed(x) ==
  \/ DomainGateEnforce /\ x.crossDomain
  \/ Len(x.queue) < 2
  \/ EnforceValueGuard /\ x.contradicted

\* get_umbrella: an umbrella that people decided about is passed over.
Check(p, sig) ==
  LET x == CohortProposal(Snapshot(p), sig)
  IN /\ proposer[p].pc = "check" /\ sig \in proposer[p].todo
     /\ \A other \in proposer[p].todo : Cardinality(other) > Cardinality(sig) \/ other = sig
     /\ IF Suppressed(x) \/ (Known(sig) /\ umbrellas[sig].state # "provisional")
        THEN Proposes(p, [proposer[p] EXCEPT !.todo = @ \ {sig}])
        ELSE Proposes(p, [proposer[p] EXCEPT !.pc = "put", !.todo = @ \ {sig}, !.id = sig,
                            !.fields = x.fields, !.queue = x.queue])
     /\ UNCHANGED umbrellaStore
Put(p) ==
  /\ proposer[p].pc = "put"
  /\ PutUmbrella(proposer[p].id, proposer[p].fields, "provisional")
  /\ Proposes(p, [proposer[p] EXCEPT !.pc = "transforms"])
  /\ UNCHANGED <<transforms, lineage>>
PutNext(p) ==
  LET x == Head(proposer[p].queue)
      rest == Tail(proposer[p].queue)
  IN /\ proposer[p].pc = "transforms"
     /\ PutTransform(proposer[p].id, x.child, x.t)
     /\ Proposes(p, [proposer[p] EXCEPT !.queue = rest, !.pc = IF rest = <<>> THEN "check" ELSE @])
     /\ UNCHANGED <<umbrellas, listing, lineage>>
Proposed(p) ==
  /\ proposer[p].pc = "check" /\ proposer[p].todo = {}
  /\ Proposes(p, IdleProposer) /\ UNCHANGED umbrellaStore

Propose(p) == Gather(p) \/ Group(p) \/ (\E sig \in proposer[p].todo : Check(p, sig))
                \/ Put(p) \/ PutNext(p) \/ Proposed(p)

----------------------------------------------------------------------------
(* approve and reject *)

Acts(h, r) == person' = [person EXCEPT ![h] = r] /\ UNCHANGED <<notes, proposer, renoted, deaths>>

ApproveRead(h, id) ==
  /\ person[h].pc = "idle" /\ Known(id) /\ umbrellas[id].state = "provisional"
  /\ Acts(h, [IdlePerson EXCEPT !.pc = "list", !.id = id, !.fields = umbrellas[id].fields])
  /\ UNCHANGED umbrellaStore
\* list_transforms: the index, then one transform after the other.
ApproveList(h) ==
  /\ person[h].pc = "list"
  /\ Acts(h, [person[h] EXCEPT !.pc = "get", !.todo = DOMAIN TransformsOf(person[h].id)])
  /\ UNCHANGED umbrellaStore
ApproveGet(h, c) ==
  /\ person[h].pc = "get" /\ c \in person[h].todo
  /\ Acts(h, [person[h] EXCEPT !.todo = @ \ {c}, !.bundle = With(@, c, TransformsOf(person[h].id)[c])])
  /\ UNCHANGED umbrellaStore
ApproveListed(h) ==
  /\ person[h].pc = "get" /\ person[h].todo = {}
  /\ Acts(h, [person[h] EXCEPT !.pc = "verify", !.todo = DOMAIN person[h].bundle])
  /\ UNCHANGED umbrellaStore
\* The child's current annotation; the issues of all transforms are collected.
ApproveVerify(h, c) ==
  /\ person[h].pc = "verify" /\ c \in person[h].todo
  /\ Acts(h, [person[h] EXCEPT !.todo = @ \ {c},
                !.sound = @ /\ VerifyStatic(person[h].bundle[c], person[h].fields, FieldsNow(c)) = {}])
  /\ UNCHANGED umbrellaStore
ApproveRefused(h) ==
  /\ person[h].pc = "verify" /\ person[h].todo = {} /\ ~person[h].sound
  /\ Acts(h, IdlePerson) /\ UNCHANGED umbrellaStore
\* Mutant: the approval ends with the umbrella's state.
Bug_ApprovePromote(h) ==
  /\ person[h].pc = "verify" /\ person[h].todo = {} /\ person[h].sound
  /\ PutUmbrella(person[h].id, person[h].fields, "active")
  /\ Acts(h, IdlePerson)
  /\ UNCHANGED <<transforms, lineage>>

ApprovePromote(h) ==
  /\ person[h].pc = "verify" /\ person[h].todo = {} /\ person[h].sound
  /\ PromoteBundle(person[h].id, person[h].fields, person[h].bundle)
  /\ Acts(h, [person[h] EXCEPT !.pc = "lineage"])
  /\ UNCHANGED lineage
ApproveLineage(h) ==
  /\ person[h].pc = "lineage"
  /\ PutLineageAssertion(person[h].id, DOMAIN person[h].bundle)
  /\ Acts(h, IdlePerson) /\ UNCHANGED <<umbrellas, listing, transforms>>

\* reject: get_umbrella and EXISTS, then set_state; umbrellas are never deleted.
RejectRead(h, id) ==
  /\ person[h].pc = "idle" /\ Known(id)
  /\ Acts(h, [IdlePerson EXCEPT !.pc = "reject", !.id = id]) /\ UNCHANGED umbrellaStore
RejectSet(h) ==
  /\ person[h].pc = "reject"
  /\ SetState(person[h].id, "rejected")
  /\ Acts(h, IdlePerson) /\ UNCHANGED <<transforms, lineage>>

Decide(h) ==
  \/ \E id \in DOMAIN umbrellas : ApproveRead(h, id) \/ RejectRead(h, id)
  \/ \E c \in ChildIds : ApproveGet(h, c) \/ ApproveVerify(h, c)
  \/ ApproveList(h) \/ ApproveListed(h) \/ ApproveRefused(h) \/ ApprovePromote(h) \/ ApproveLineage(h)
  \/ RejectSet(h)

\* A request ends where it is: a store error, or the end of the process.
ProposalDies(p) ==
  /\ proposer[p].pc # "idle" /\ deaths < MaxDeaths /\ deaths' = deaths + 1
  /\ proposer' = [proposer EXCEPT ![p] = IdleProposer] /\ UNCHANGED <<notes, umbrellaStore, person, renoted>>
DecisionDies(h) ==
  /\ person[h].pc # "idle" /\ deaths < MaxDeaths /\ deaths' = deaths + 1
  /\ person' = [person EXCEPT ![h] = IdlePerson] /\ UNCHANGED <<notes, umbrellaStore, proposer, renoted>>

UmbrellaNext ==
  \/ \E c \in ChildIds : \E n \in Notes[c] : Annotate(c, n)
  \/ \E p \in Proposers : Propose(p) \/ ProposalDies(p)
  \/ \E h \in People : Decide(h) \/ DecisionDies(h)

UmbrellaSpec == UmbrellaInit /\ [][UmbrellaNext]_umbrellaVars

----------------------------------------------------------------------------
(* Properties *)

\* Whatever proposals, approvals, rejections and failures interleave, an
\* umbrella is in the listing of its state and in no other: list_umbrellas
\* neither loses nor repeats one.
ListedByState ==
  \A s \in States : listing[s] = {id \in DOMAIN umbrellas : umbrellas[id].state = s}

\* The events a child emits: a value of the right type at some of its leaves.
ReadingsOf(f) ==
  LET scalars == {[ty |-> t, n |-> n] : t \in {t \in Scalars : Widens(t, f.ty)}, n \in Readings}
  IN IF f.array THEN {[ty |-> "array", n |-> <<v>>] : v \in scalars} ELSE scalars
EventsAt(fields, is) ==
  {e \in [{fields[i].path : i \in is} -> UNION {ReadingsOf(fields[i]) : i \in is}] :
     \A i \in is : e[fields[i].path] \in ReadingsOf(fields[i])}
EventsOf(c) == LET fields == FieldsNow(c) IN UNION {EventsAt(fields, is) : is \in SUBSET (DOMAIN fields)}

\* A transform stored for an umbrella, proposed or approved, applied to any event
\* of its child refuses it or makes a gold event of the umbrella: verify_static
\* keeps out what the executor would get wrong, even when the umbrella and its
\* transforms come from different requests.
GoldIsWellFormed ==
  \A id \in DOMAIN transforms : \A c \in DOMAIN transforms[id] : \A e \in EventsOf(c) :
    \A gold \in Apply(transforms[id][c], e) : ValidateGold(umbrellas[id].fields, gold)

\* The physical quantity, in hundredths of the base unit of its dimension, as a fraction.
UnitScale(code) ==
  CASE code = "hPa" -> 100 [] code \in {"kPa", "kW", "km"} -> 1000 [] code = "MW" -> 1000000
    [] code = "GW" -> 1000000000 [] code = "h" -> 3600 [] code = "min" -> 60 [] OTHER -> 1
UnitZero(code) == IF code = "Cel" THEN 27315 ELSE 0
Quantity(unit, n) == <<100 * UnitScale(unit.code) * n[1] + UnitZero(unit.code) * n[2], n[2]>>

\* As long as no annotation changes, every stored transform keeps the physical
\* quantity: the gold value in the umbrella's unit is the child's value in the
\* child's unit, also when the umbrella's unit came from another member.
GoldIsInUnits ==
  renoted = 0 => \A id \in DOMAIN transforms : \A c \in DOMAIN transforms[id] : \A e \in EventsOf(c) :
    LET bs == transforms[id][c].bindings
    IN \A gold \in Apply(transforms[id][c], e) : \A i \in DOMAIN bs :
         \A child \in FieldAt(FieldsNow(c), bs[i].source), uf \in FieldAt(umbrellas[id].fields, bs[i].target) :
           bs[i].source \in DOMAIN e /\ uf.unit # NoUnit =>
             LET from == Quantity(child.unit, e[bs[i].source].n)
                 to == Quantity(uf.unit, gold[bs[i].target].n)
             IN from[1] * to[2] = to[1] * from[2]

\* What the properties of gold rest on beyond the code, which looks at neither: the
\* gold path of an id is no other id's and not on the way to it, and the leaves of a
\* schema that carry the same id have the same type.
PathsApart ==
  \A i, j \in DOMAIN CfidOrder : LET p == PathOf[CfidOrder[i]]  q == PathOf[CfidOrder[j]]
                               IN (i # j => p # q) /\ ~ProperPrefix(p, q)
NotesFor(c) == Notes[c] \cup {FirstNote[c]}
TypesAgree ==
  \A c \in ChildIds : \A n \in NotesFor(c) : LET fields == Annotated(ChildFields(NodesOf[c], n)) IN
    \A i, j \in DOMAIN fields : fields[i].cfid = fields[j].cfid => fields[i].ty = fields[j].ty

\* Whatever transform is stored, its gold events are valid and mean what the
\* child's events meant.
GoldIsSound == GoldIsWellFormed /\ GoldIsInUnits

\* Unless a request died, an active umbrella has its lineage, or the approval
\* that activated it is about to write it; and a lineage names only children
\* with a stored transform.
LineageFollows ==
  /\ deaths = 0 => \A id \in DOMAIN umbrellas : umbrellas[id].state = "active" =>
       id \in DOMAIN lineage \/ \E h \in People : person[h].pc = "lineage" /\ person[h].id = id
  /\ \A id \in DOMAIN lineage : lineage[id] \subseteq DOMAIN TransformsOf(id)

=============================================================================
