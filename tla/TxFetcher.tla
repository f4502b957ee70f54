------------------------------ MODULE TxFetcher ------------------------------
(***************************************************************************)
(* The transaction fetcher of a geth node (eth/fetcher/tx_fetcher.go): the *)
(* loop that turns announcements of hashes into requests to peers.         *)
(*                                                                         *)
(* A hash waits for a broadcast, is then queued, and is then fetched from  *)
(* one of the peers that announced it, the others being its alternates.    *)
(* The loop handles one event at a time; announcements, deliveries, drops  *)
(* and the two timers reach it in any order.  Notify and Enqueue run in    *)
(* the goroutines of the peers: which hashes pass the check against pool   *)
(* and underpriced set is settled before the loop sees them, so the loop   *)
(* may be handed any hash.                                                 *)
(*                                                                         *)
(* A Go map entry that is missing is an empty set here, or None.           *)
(***************************************************************************)
EXTENDS Naturals, FiniteSets, Sequences, Functions

CONSTANTS
    Peers,
    Hashes,
    MaxTxAnnounces,    \* maxTxAnnounces
    MaxTxRetrievals,   \* maxTxRetrievals
    None

\* txRequest; one that timed out keeps its place with no hashes.
Requests == [hashes : Seq(Hashes), stolen : SUBSET Hashes]

ASSUME LimitAssumption == MaxTxAnnounces \in Nat \ {0} /\ MaxTxRetrievals \in Nat \ {0}
ASSUME FiniteAssumption == IsFiniteSet(Peers)
ASSUME NoneAssumption == None \notin Peers \cup Requests

VARIABLES
    waitlist,    \* stage 1: the peers that announced a waiting hash (and waittime)
    waitslots,   \* stage 1: the waiting hashes of a peer
    waitTimer,   \* waitTimer is armed, or waitTrigger holds its signal
    q,           \* stages 2 and 3, see Init
    dropped      \* history: peers that were dropped at least once

vars == <<waitlist, waitslots, waitTimer, q, dropped>>

Waiting == {h \in Hashes : waitlist[h] # {}}

Init ==
    /\ waitlist = [h \in Hashes |-> {}]
    /\ waitslots = [p \in Peers |-> {}]
    /\ waitTimer = FALSE
    /\ q = [announces |-> [p \in Peers |-> {}],     \* hashes a peer announced
            announced |-> [h \in Hashes |-> {}],    \* peers of a queued hash
            alternates |-> [h \in Hashes |-> {}],   \* peers of a hash being fetched
            fetching |-> [h \in Hashes |-> None],   \* the peer it is fetched from
            requests |-> [p \in Peers |-> None],    \* txRequest in flight
            timer |-> FALSE,                        \* timeoutTimer, as waitTimer
            panic |-> FALSE]                        \* a panic was hit
    /\ dropped = {}

-----------------------------------------------------------------------------
(***************************************************************************)
(* scheduleFetches                                                         *)
(***************************************************************************)

\* What peer p still owes: "Skip rescheduling hashes already delivered by someone
\* else".
Owed(s, p) ==
    IF s.requests[p] = None THEN {}
    ELSE Range(s.requests[p].hashes) \ s.requests[p].stolen

Busy(s) == {p \in Peers : s.requests[p] # None}

Unfetched(s, p) == {h \in s.announces[p] : s.fetching[h] = None}

\* The lists of hashes of S that fit into a request.
Batches(S) == UNION {Injection(1..n, S) : n \in 0..MaxTxRetrievals}

\* What the peers before p left of the hashes p announced.
Left(s, a, rank, p) ==
    Unfetched(s, p) \ UNION {Range(a[o]) : o \in {o \in DOMAIN a : rank[o] < rank[p]}}

\* The ways in which the peers of P, visited in some order, can each take as many
\* of their hashes as the ones before left and the limit of a request admits.
Allocations(s, P) ==
    {a \in [P -> Batches(UNION {Unfetched(s, p) : p \in P})] :
        \E rank \in Injection(P, 1..Cardinality(P)) : \A p \in P :
            /\ Range(a[p]) \subseteq Left(s, a, rank, p)
            /\ Len(a[p]) = MaxTxRetrievals \/ Range(a[p]) = Left(s, a, rank, p)}

Allocate(s, P, a) ==
    LET taken == UNION {Range(a[p]) : p \in P}
    IN  [s EXCEPT
           !.fetching = [h \in Hashes |->
               IF h \in taken THEN CHOOSE p \in P : h \in Range(a[p]) ELSE s.fetching[h]],
           !.alternates = [h \in Hashes |->
               IF h \in taken THEN s.announced[h] ELSE s.alternates[h]],
           !.announced = [h \in Hashes |-> IF h \in taken THEN {} ELSE s.announced[h]],
           !.requests = [p \in Peers |->
               IF p \in P /\ a[p] # <<>> THEN [hashes |-> a[p], stolen |-> {}]
               ELSE s.requests[p]],
           !.timer = s.timer \/ (Busy(s) = {} /\ taken # {}),
           !.panic = s.panic \/ \E h \in taken : s.alternates[h] # {}]

\* Faulty variant of Idle: it does not look for a request in flight.
Idle_or_busy(s, actives) == {p \in actives : s.announces[p] # {}}

Idle(s, actives) == {p \in actives : s.announces[p] # {} /\ s.requests[p] = None}

\* The states scheduleFetches can leave behind, from the state s; actives are all
\* peers where the code passes nil.
scheduleFetches(s, actives) ==
    UNION {UNION {{Allocate(r, P, a) : a \in Allocations(r, P)} : P \in {Idle(r, actives)}} :
             r \in {s}}

-----------------------------------------------------------------------------
(***************************************************************************)
(* The cases of the loop                                                   *)
(***************************************************************************)

\* case ann := <-f.notify: the part H of an announcement of peer p that is kept.
\* A peer at its limit is not heard, and one that would pass it is cut: the slice
\* keeps as many hashes as there are too many.
Kept(p, announcement) ==
    LET used == Cardinality(waitslots[p]) + Cardinality(q.announces[p])
        want == used + Cardinality(announcement)
    IN  IF used >= MaxTxAnnounces THEN {}
        ELSE IF want <= MaxTxAnnounces THEN {announcement}
        ELSE {H \in SUBSET announcement : Cardinality(H) = want - MaxTxAnnounces}

\* A hash that is downloading or queued gets p as one more origin.
AddOrigin(p, H) ==
    [q EXCEPT
        !.alternates = [h \in Hashes |->
            IF h \in H /\ q.alternates[h] # {} THEN q.alternates[h] \cup {p}
            ELSE q.alternates[h]],
        !.announced = [h \in Hashes |->
            IF h \in H /\ q.alternates[h] = {} /\ q.announced[h] # {}
            THEN q.announced[h] \cup {p} ELSE q.announced[h]],
        !.announces[p] = @ \cup {h \in H : q.alternates[h] # {} \/ q.announced[h] # {}}]

\* Faulty variant of notify: the wait timer is left to the hashes already waiting.
notify_no_timer(p, H) ==
    LET fresh == {h \in H : q.alternates[h] = {} /\ q.announced[h] = {}}
        s == AddOrigin(p, H)
    IN  /\ waitlist' = [h \in Hashes |-> IF h \in fresh THEN waitlist[h] \cup {p} ELSE waitlist[h]]
        /\ waitslots' = [waitslots EXCEPT ![p] = @ \cup fresh]
        /\ waitTimer' = waitTimer
        /\ q' \in IF q.announces[p] = {} THEN scheduleFetches(s, {p}) ELSE {s}
        /\ UNCHANGED dropped

notify(p, H) ==
    LET fresh == {h \in H : q.alternates[h] = {} /\ q.announced[h] = {}}
        s == AddOrigin(p, H)
    IN  /\ waitlist' = [h \in Hashes |-> IF h \in fresh THEN waitlist[h] \cup {p} ELSE waitlist[h]]
        /\ waitslots' = [waitslots EXCEPT ![p] = @ \cup fresh]
        /\ waitTimer' = (waitTimer \/ (Waiting = {} /\ fresh # {}))
        /\ q' \in IF q.announces[p] = {} THEN scheduleFetches(s, {p}) ELSE {s}
        /\ UNCHANGED dropped

\* case <-waitTrigger: the hashes E have waited long enough and are queued.
Queued(E) ==
    [q EXCEPT
        !.announced = [h \in Hashes |-> IF h \in E THEN waitlist[h] ELSE q.announced[h]],
        !.announces = [p \in Peers |-> q.announces[p] \cup {h \in E : p \in waitlist[h]}],
        !.panic = q.panic \/ \E h \in E : q.announced[h] # {}]

waitTrigger(E) ==
    /\ waitTimer
    /\ waitlist' = [h \in Hashes |-> IF h \in E THEN {} ELSE waitlist[h]]
    /\ waitslots' = [p \in Peers |-> waitslots[p] \ {h \in E : p \in waitlist[h]}]
    /\ waitTimer' = (Waiting # E)
    /\ q' \in scheduleFetches(Queued(E), UNION {waitlist[h] : h \in E})
    /\ UNCHANGED dropped

\* The hashes H leave stage 3, and are queued again where an origin is left.
PutBack(s, H, origins) ==
    [s EXCEPT
        !.announced = [h \in Hashes |->
            IF h \in H /\ origins[h] # {} THEN origins[h] ELSE s.announced[h]],
        !.alternates = [h \in Hashes |-> IF h \in H THEN {} ELSE s.alternates[h]],
        !.fetching = [h \in Hashes |-> IF h \in H THEN None ELSE s.fetching[h]]]

\* The peers whose request can expire: a dangling one has nothing left to.
Pending == {p \in Busy(q) : q.requests[p].hashes # <<>>}

\* Faulty variant of Expired: the late peer is not taken off the origins.
Expired_keeps_origin(L) ==
    LET late == UNION {Owed(q, p) : p \in L}
    IN  [PutBack(q, late, q.alternates) EXCEPT
           !.announces = [p \in Peers |-> IF p \in L THEN q.announces[p] \ Owed(q, p)
                                          ELSE q.announces[p]],
           !.requests = [p \in Peers |-> IF p \in L THEN [q.requests[p] EXCEPT !.hashes = <<>>]
                                         ELSE q.requests[p]],
           !.panic = q.panic \/ \E h \in late : q.announced[h] # {}]

\* Faulty variant of Expired: what others delivered meanwhile is queued again.
Expired_stolen_too(L) ==
    LET late == UNION {Range(q.requests[p].hashes) : p \in L}
        origins == [h \in Hashes |-> q.alternates[h] \ {p \in L : h \in Owed(q, p)}]
    IN  [PutBack(q, late, origins) EXCEPT
           !.announces = [p \in Peers |-> IF p \in L THEN q.announces[p] \ Owed(q, p)
                                          ELSE q.announces[p]],
           !.requests = [p \in Peers |-> IF p \in L THEN [q.requests[p] EXCEPT !.hashes = <<>>]
                                         ELSE q.requests[p]],
           !.panic = q.panic \/ \E h \in late : q.announced[h] # {}]

\* case <-timeoutTrigger: what the peers L owe is left to other peers; their
\* requests stay, as dangling ones, so that they are asked nothing more.
Expired(L) ==
    LET late == UNION {Owed(q, p) : p \in L}
        origins == [h \in Hashes |-> q.alternates[h] \ {p \in L : h \in Owed(q, p)}]
    IN  [PutBack(q, late, origins) EXCEPT
           !.announces = [p \in Peers |-> IF p \in L THEN q.announces[p] \ Owed(q, p)
                                          ELSE q.announces[p]],
           !.requests = [p \in Peers |-> IF p \in L THEN [q.requests[p] EXCEPT !.hashes = <<>>]
                                         ELSE q.requests[p]],
           !.panic = q.panic \/ \E h \in late : q.announced[h] # {}]

\* Faulty variant of timeoutTrigger: nothing is scheduled afterwards.
timeoutTrigger_no_schedule(L) ==
    /\ q.timer
    /\ q' = Expired(L)
    /\ UNCHANGED <<waitlist, waitslots, waitTimer, dropped>>

timeoutTrigger(L) ==
    /\ q.timer
    /\ UNCHANGED <<waitlist, waitslots, waitTimer, dropped>>
    /\ q' \in scheduleFetches(Expired(L), Peers)

\* Faulty variant of Delivered: the alternates of a delivered hash are kept.
Delivered_keeps_alternates(p, D, direct) ==
    LET stolen(o) == {h \in D : q.fetching[h] = o /\ (o # p \/ ~direct)}
    IN  [q EXCEPT
           !.announces = [o \in Peers |-> q.announces[o] \ D],
           !.announced = [h \in Hashes |-> IF h \in D THEN {} ELSE q.announced[h]],
           !.fetching = [h \in Hashes |-> IF h \in D THEN None ELSE q.fetching[h]],
           !.requests = [o \in Peers |->
               IF q.requests[o] = None THEN None
               ELSE [q.requests[o] EXCEPT !.stolen = @ \cup stolen(o)]]]

\* case delivery := <-f.cleanup, first part: all traces of the hashes D that were
\* not waiting are removed; a delivery by anyone but the peer asked is stolen.
Delivered(p, D, direct) ==
    LET stolen(o) == {h \in D : q.fetching[h] = o /\ (o # p \/ ~direct)}
    IN  [q EXCEPT
           !.announces = [o \in Peers |-> q.announces[o] \ D],
           !.announced = [h \in Hashes |-> IF h \in D THEN {} ELSE q.announced[h]],
           !.alternates = [h \in Hashes |-> IF h \in D THEN {} ELSE q.alternates[h]],
           !.fetching = [h \in Hashes |-> IF h \in D THEN None ELSE q.fetching[h]],
           !.requests = [o \in Peers |->
               IF q.requests[o] = None THEN None
               ELSE [q.requests[o] EXCEPT !.stolen = @ \cup stolen(o)]],
           !.panic = q.panic \/ \E o \in Peers \ Busy(q) : stolen(o) # {}]

\* What the peer was asked for, did not deliver, and listed before the last hash
\* it delivered (or anywhere, if there is none): it does not have it.
Refused(s, p, D) ==
    LET asked == s.requests[p].hashes
        hits == {i \in 1..Len(asked) : asked[i] \in D}
    IN  {h \in Owed(s, p) \ D :
           hits = {} \/ \E i \in 1..Len(asked), j \in hits : i < j /\ asked[i] = h}

\* Second part, for a reply: what it leaves open is queued again.
Answered(s, p, D) ==
    LET origins == [h \in Hashes |->
            IF h \in D THEN {}
            ELSE s.alternates[h] \ (IF h \in Refused(s, p, D) THEN {p} ELSE {})]
    IN  [PutBack(s, Owed(s, p), origins) EXCEPT
           !.announces[p] = @ \ Refused(s, p, D),
           !.requests[p] = None,
           !.panic = s.panic \/ \E h \in Owed(s, p) \ D : origins[h] # {} /\ s.announced[h] # {}]

cleanup(p, D, direct) ==
    LET s == Delivered(p, D \ Waiting, direct)
        t == Answered(s, p, D)
    IN  /\ waitlist' = [h \in Hashes |-> IF h \in D THEN {} ELSE waitlist[h]]
        /\ waitslots' = [o \in Peers |-> waitslots[o] \ (D \cap Waiting)]
        /\ q' \in IF direct /\ s.requests[p] # None THEN scheduleFetches(t, Peers) ELSE {s}
        /\ UNCHANGED <<waitTimer, dropped>>

\* case drop := <-f.drop, the parts on stages 2 and 3: a request of the peer is
\* cancelled, then its announcements are forgotten.
Cancelled(p) ==
    [PutBack(q, Owed(q, p), [h \in Hashes |-> q.alternates[h] \ {p}]) EXCEPT
        !.requests[p] = None]

Forgotten(s, p) ==
    [s EXCEPT
        !.announced = [h \in Hashes |->
            IF h \in s.announces[p] THEN s.announced[h] \ {p} ELSE s.announced[h]],
        !.announces[p] = {}]

drop(p) ==
    LET s == Forgotten(Cancelled(p), p)
    IN  /\ waitslots[p] # {} \/ q.announces[p] # {} \/ p \in Busy(q)
        /\ waitlist' = [h \in Hashes |-> IF h \in waitslots[p] THEN waitlist[h] \ {p} ELSE waitlist[h]]
        /\ waitslots' = [waitslots EXCEPT ![p] = {}]
        /\ waitTimer' = (waitTimer \/ (waitslots[p] # {} /\ Waiting' # {}))
        /\ IF p \in Busy(q)
           THEN q' \in {[n EXCEPT !.timer = TRUE] : n \in scheduleFetches(s, Peers)}
           ELSE q' = s
        /\ dropped' = dropped \cup {p}

-----------------------------------------------------------------------------
Next ==
    /\ ~q.panic
    /\ \/ \E p \in Peers, A \in SUBSET Hashes : \E H \in Kept(p, A) : notify(p, H)
       \/ \E E \in SUBSET Waiting : waitTrigger(E)
       \/ \E L \in SUBSET Pending : timeoutTrigger(L)
       \/ \E p \in Peers, D \in SUBSET Hashes, direct \in BOOLEAN : cleanup(p, D, direct)
       \/ \E p \in Peers : drop(p)

\* The timeout timer is armed again whenever it has fired, and the loop reads its
\* channels for ever: the signal is handled again and again, whichever requests it
\* finds expired.
Fairness == WF_vars(~q.panic /\ \E L \in SUBSET Pending : timeoutTrigger(L))

Spec == Init /\ [][Next]_vars /\ Fairness

-----------------------------------------------------------------------------
(***************************************************************************)
(* Properties                                                              *)
(***************************************************************************)

\* The maps of the fetcher as Go types them: sets of peers by hash, of hashes by
\* peer, at most one peer a hash is fetched from and one request per peer.
Stages ==
    [announces : [Peers -> SUBSET Hashes], announced : [Hashes -> SUBSET Peers],
     alternates : [Hashes -> SUBSET Peers], fetching : [Hashes -> Peers \cup {None}],
     requests : [Peers -> Requests \cup {None}], timer : BOOLEAN, panic : BOOLEAN]

TypeOK ==
    /\ waitlist \in [Hashes -> SUBSET Peers]
    /\ waitslots \in [Peers -> SUBSET Hashes]
    /\ waitTimer \in BOOLEAN
    /\ q \in Stages
    /\ dropped \subseteq Peers

\* "Each tracked transaction (hash) must only be present in one of the three
\* stages", whatever is delivered, announced again, dropped or late.
OneStage ==
    \A h \in Hashes :
        /\ (q.fetching[h] # None) <=> (q.alternates[h] # {})
        /\ q.alternates[h] # {} => q.announced[h] = {}
        /\ waitlist[h] # {} => q.announced[h] = {} /\ q.alternates[h] = {}

\* None of the loop's panics (an entry that exists already, a request that does
\* not) can be reached.
NoPanic == ~q.panic

\* "Each peer may be scheduled retrievals, but only ever one concurrently ... we can
\* immediately know what is missing from a reply": a hash is being fetched from p
\* exactly when p's one request still owes it.
FetchedFromDebtor ==
    \A h \in Hashes, p \in Peers : q.fetching[h] = p <=> h \in Owed(q, p)

\* The maps by peer and the maps by hash say the same, so that limits count what is
\* tracked and every queued hash can be asked for.  Only a peer that was dropped
\* may remain an origin: Drop leaves it in the alternates of requests to others.
MapsAgree ==
    \A h \in Hashes, p \in Peers :
        /\ h \in waitslots[p] <=> p \in waitlist[h]
        /\ h \in q.announces[p] => p \in q.announced[h] \cup q.alternates[h]
        /\ p \in q.announced[h] \cup q.alternates[h] => h \in q.announces[p] \/ p \in dropped

\* Something will wake the loop up: a timer is armed while a hash waits, and while
\* any peer could be asked or is being asked.
TimersArmed ==
    /\ Waiting # {} => waitTimer
    /\ Busy(q) # {} => q.timer
    /\ (\E p \in Peers : Unfetched(q, p) # {}) => Busy(q) # {}

\* A peer that is not being asked for anything is asked for what it announced, as
\* long as nobody else is: no announcement from a free peer is left lying.
IdlePeerIsAsked ==
    \A p \in Peers, h \in Hashes :
        (h \in Unfetched(q, p) /\ p \notin Busy(q)) ~> (h \notin Unfetched(q, p) \/ p \in Busy(q))
=============================================================================
