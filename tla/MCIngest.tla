------------------------------ MODULE MCIngest ------------------------------
(* A producer with an idempotency key of its own beside one that has none or whose
   request fails one of the checks; and the matcher that the proxy shares with the
   relay. *)
EXTENDS Ingest, Catalogue, TLC, Tagging

Length(n) == "content-length" :> <<[parses |-> TRUE, value |-> n]>>
Bearer == "authorization" :> <<"secret">>
Post1(headers, weight, size, shape) == [headers |-> headers, weight |-> weight, size |-> size, shape |-> shape]

Keyed == Post1(Length(1) @@ Bearer @@ ("idempotency-key" :> <<<<"own", "k", 0>>>>)
               @@ ("deblob-schema-id" :> <<"spoofed">>), 1, 1, "s1")
Unkeyed == Post1(Bearer @@ ("transfer-encoding" :> <<"chunked">>), 1, 1, "s1")

Refused ==
    {Post1(Length(1) @@ Bearer, 1, 1, MalformedBody),
     Post1(Length(1) @@ Bearer @@ ("transfer-encoding" :> <<"chunked">>), 1, 1, "s1"),
     Post1(Length(1) @@ Bearer, 3, 1, "s1"),
     Post1(Length(3) @@ Bearer, 1, 1, "s1"),
     Post1("content-length" :> <<[parses |-> FALSE, value |-> 9]>> @@ Bearer, 1, 3, "s1"),
     Post1(Length(1), 1, 1, "s1")}

MCPostings == {[p1 |-> Keyed, p2 |-> r] : r \in Refused \cup {Unkeyed}}

MCRoute == [scheme |-> "http", host |-> "sink", port |-> 80]
MCAllowlist == {MCRoute}

MCSourceOf == [c \in Cands |-> "web"]

\* The proxy, the matcher behind it, the source registry and the names share no state but
\* what one leaves open for another (a classification is any answer of the matcher), and
\* their steps commute: behaviours in which one of them moves show all that a property of
\* any can see.
EdgeInit == Init /\ SourcesInit /\ NamesInit /\ TaggingInit
Untouched == listener = "starting" /\ life = 1 /\ request.p2 = Unkeyed
EdgeNext ==
    \/ SourcesInit /\ NamesInit /\ TaggingInit /\ Next /\ UNCHANGED <<sourceVars, nameVars, taggingVars>>
    \/ Untouched /\ NamesInit /\ TaggingInit /\ SourcesNext /\ UNCHANGED <<vars, taggingVars>>
    \/ Untouched /\ SourcesInit /\ TaggingInit /\ NamesNext /\ UNCHANGED <<vars, taggingVars>>
    \/ Untouched /\ SourcesInit /\ NamesInit /\ TaggingNext /\ UNCHANGED <<vars, sourceVars, nameVars>>

EdgeSpec == EdgeInit /\ [][EdgeNext]_<<vars, sourceVars, nameVars, taggingVars>> /\ Fairness
=============================================================================
