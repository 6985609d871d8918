----------------------------- MODULE Catalogue -----------------------------
(***************************************************************************)
(* What the management API keeps beside the schemas themselves: the        *)
(* registry of sources, which reconcile fills from the candidates, and the *)
(* display names, which an operator and an automatic namer both write.     *)
(***************************************************************************)
EXTENDS Naturals, FiniteSets, FiniteSetsExt

CONSTANTS
    Cands, SourceOf,    \* the candidates and the source each came from
    Reconcilers,        \* requests to reconcile
    NamedSchemas, Namers,
    MaxNow              \* bound of the model: the clock

VARIABLES
    now,
    cands,      \* the candidate store: state and last_seen_ms
    sources,    \* RedisSourceRegistry: the window each source was seen in
    recon,      \* the reconcile requests
    names,      \* name_source of each schema
    namer       \* by namer: the schema it means to name, and the source it saw

sourceVars == <<now, cands, sources, recon>>
nameVars == <<names, namer>>

SourceIds == {SourceOf[c] : c \in Cands}
Unregistered == [first |-> 0, last |-> 0]
Unnamed == "none"

NewRequest == [pc |-> "idle", latest |-> [s \in SourceIds |-> 0], todo |-> {}, at |-> {},
               read |-> Unregistered, since |-> [c \in Cands |-> 0]]

SourcesInit ==
    /\ now = 1
    /\ cands = [c \in Cands |-> [state |-> "absent", last |-> 0]]
    /\ sources = [s \in SourceIds |-> Unregistered]
    /\ recon = [r \in Reconcilers |-> NewRequest]

NamesInit ==
    /\ names = [x \in NamedSchemas |-> Unnamed]
    /\ namer = [n \in Namers |-> {}]

-----------------------------------------------------------------------------
(* The candidates change meanwhile (see Discovery).                        *)

Tick == now < MaxNow /\ now' = now + 1 /\ UNCHANGED <<cands, sources, recon, nameVars>>

Sight(c) ==
    /\ cands[c].state \in {"absent", "provisional"}
    /\ cands' = [cands EXCEPT ![c] = [state |-> "provisional", last |-> now]]
    /\ UNCHANGED <<now, sources, recon, nameVars>>

Decide(c, state) ==
    /\ cands[c].state = "provisional"
    /\ cands' = [cands EXCEPT ![c].state = state]
    /\ UNCHANGED <<now, sources, recon, nameVars>>

\* An expired candidate is owed nothing by the requests under way.
Expire(c) ==
    /\ cands[c].state = "provisional"
    /\ cands' = [cands EXCEPT ![c] = [state |-> "absent", last |-> 0]]
    /\ recon' = [r \in Reconcilers |-> [recon[r] EXCEPT !.since[c] = 0]]
    /\ UNCHANGED <<now, sources, nameVars>>

-----------------------------------------------------------------------------
(* POST /api/v1/sources/reconcile                                          *)

Scan == <<"provisional", "staged", "rejected">>
Active(r) == recon[r].pc \in {"scan1", "scan2", "scan3", "register", "write"}
ScanStep == [scan1 |-> 1, scan2 |-> 2, scan3 |-> 3]

\* since is history: how far each candidate had been seen when a request began that no
\* other one has overlapped.
Reconcile(r) ==
    /\ recon[r].pc = "idle"
    /\ LET others == {q \in Reconcilers \ {r} : Active(q)}
       IN recon' = [q \in Reconcilers |->
            IF q = r THEN [NewRequest EXCEPT !.pc = "scan1",
                             !.since = [c \in Cands |-> IF others = {} THEN cands[c].last ELSE 0]]
            ELSE IF q \in others THEN [recon[q] EXCEPT !.since = NewRequest.since] ELSE recon[q]]
    /\ UNCHANGED <<now, cands, sources, nameVars>>

\* Mutant: the first sighting of a source stands for all.
Bug_Latest(latest, state) ==
    [s \in SourceIds |-> IF latest[s] # 0 THEN latest[s] ELSE
        LET seen == {c \in Cands : SourceOf[c] = s /\ cands[c].state = state}
        IN IF seen = {} THEN 0 ELSE cands[CHOOSE c \in seen : TRUE].last]

\* The latest sighting of each source in what was listed so far.
Latest(latest, state) ==
    [s \in SourceIds |->
        Max({latest[s]} \cup {cands[c].last : c \in {d \in Cands : SourceOf[d] = s
                                                                  /\ cands[d].state = state}})]

\* One state's listing, paged to its end.
ListCandidates(r) ==
    /\ recon[r].pc \in DOMAIN ScanStep
    /\ LET step == ScanStep[recon[r].pc]
           latest == Latest(recon[r].latest, Scan[step])
       IN recon' = [recon EXCEPT
            ![r].latest = latest,
            ![r].pc = IF step = 1 THEN "scan2" ELSE IF step = 2 THEN "scan3" ELSE "register",
            ![r].todo = {s \in SourceIds : latest[s] # 0}]
    /\ UNCHANGED <<now, cands, sources, nameVars>>

\* register_source reads the record of the next source ...
RegisterRead(r) ==
    /\ recon[r].pc = "register"
    /\ IF recon[r].todo = {} THEN recon' = [recon EXCEPT ![r].pc = "done", ![r].latest = NewRequest.latest]
       ELSE \E s \in recon[r].todo :
              recon' = [recon EXCEPT ![r].pc = "write", ![r].at = {s}, ![r].todo = @ \ {s},
                                     ![r].read = sources[s]]
    /\ UNCHANGED <<now, cands, sources, nameVars>>

Merged(read, observed) ==
    IF read = Unregistered THEN [first |-> observed, last |-> observed]
    ELSE [first |-> Min({read.first, observed}), last |-> Max({read.last, observed})]

\* ... and writes the merged window in a later round trip.
RegisterWrite(r) ==
    /\ recon[r].pc = "write"
    /\ sources' = [s \in SourceIds |->
         IF s \in recon[r].at THEN Merged(recon[r].read, recon[r].latest[s]) ELSE sources[s]]
    /\ recon' = [recon EXCEPT ![r].pc = "register", ![r].at = {}, ![r].read = Unregistered]
    /\ UNCHANGED <<now, cands, nameVars>>

\* Any store error ends the request; what it has registered stays.
ReconcileFails(r) ==
    /\ Active(r)
    /\ recon' = [recon EXCEPT ![r] = NewRequest]
    /\ UNCHANGED <<now, cands, sources, nameVars>>

-----------------------------------------------------------------------------
(* PUT /api/v1/schemas/{sch_id}/name                                       *)

\* Mutant: the script trusts what the namer read.
Bug_SET_NAME_SCRIPT(x, source) == names' = [names EXCEPT ![x] = source]

\* One script: a human name is overwritten by a human name only.
SET_NAME_SCRIPT(x, source) ==
    names' = IF source # "human" /\ names[x] = "human" THEN names
             ELSE [names EXCEPT ![x] = source]

HumanNames(x) ==
    /\ SET_NAME_SCRIPT(x, "human")
    /\ UNCHANGED <<sourceVars, namer>>

\* An automatic namer looks for a schema nobody has named, asks its model, and writes.
NamerReads(n, x) ==
    /\ namer[n] = {} /\ names[x] # "human"
    /\ namer' = [namer EXCEPT ![n] = {x}]
    /\ UNCHANGED <<sourceVars, names>>

NamerWrites(n, source) ==
    /\ \E x \in namer[n] : SET_NAME_SCRIPT(x, source)
    /\ namer' = [namer EXCEPT ![n] = {}]
    /\ UNCHANGED sourceVars

SourcesNext ==
    \/ Tick
    \/ \E c \in Cands : Sight(c) \/ Expire(c) \/ \E state \in {"staged", "rejected"} : Decide(c, state)
    \/ \E r \in Reconcilers :
         Reconcile(r) \/ ListCandidates(r) \/ RegisterRead(r) \/ RegisterWrite(r) \/ ReconcileFails(r)

NamesNext ==
    \/ \E x \in NamedSchemas : HumanNames(x) \/ \E n \in Namers : NamerReads(n, x)
    \/ \E n \in Namers, source \in {"slm", "heuristic"} : NamerWrites(n, source)

-----------------------------------------------------------------------------
(* Properties.                                                             *)

\* A reconcile that no other one overlapped has registered every source with a window
\* that reaches at least as far as each of its candidates had been seen when it began,
\* although candidates move between the listings it scans; and it stays so, however many
\* reconciles overlap afterwards.
ReconcileCatchesUp ==
    /\ \A s \in SourceIds : sources[s].first <= sources[s].last
    /\ \A r \in Reconcilers : recon[r].pc = "done" =>
         \A c \in Cands : sources[SourceOf[c]].last >= recon[r].since[c]

\* What an operator named is never renamed by the automatic namer, although the namer
\* decides to write long before it does.
HumanNameStands == [][\A x \in NamedSchemas : names[x] = "human" => names'[x] = "human"]_names
=============================================================================
