---------------------------- MODULE CapabilityProbe ----------------------------
(***************************************************************************)
(* The readiness of the API: one cached probe for every plane that is      *)
(* configured, all asked in their order by each request.  The caches are   *)
(* shared without a lock by the threads that serve /api/ready.  Every      *)
(* access to a cache is one step, so requests decide on a stamp that       *)
(* others are about to replace, and an answer combines planes that were    *)
(* looked at one after the other.                                          *)
(***************************************************************************)
EXTENDS Integers

CONSTANTS
    Asker,      \* concurrent readiness requests
    NumPlanes,  \* planes of the composition: database, objects, queue, ...
    Trusted,    \* planes whose check does not look: a Service Bus queue
    Ttl,        \* how long a check counts (10 s)
    Patience,   \* external: the time a request takes at most
    LastMoment  \* bounds the time

ASSUME ProbeAssumption == /\ NumPlanes \in Nat \ {0} /\ Trusted \subseteq 1 .. NumPlanes
                          /\ Ttl \in Nat \ {0} /\ Patience \in Nat /\ LastMoment \in Nat

VARIABLES
    moment,  \* time.monotonic()
    seen,    \* plane -> outcome -> when a check last found it, Never when none did
    probe,   \* plane -> _ready and _checked_at
    asker    \* the requests

probeVars == <<moment, seen, probe, asker>>

\* build_readiness_probes.
Plane == 1 .. NumPlanes

Never == -1 - LastMoment

\* "plane" is the one a request asks, "ready" whether those before it all were.
Resting == [pc |-> "resting", plane |-> 1, now |-> 0, found |-> FALSE, ready |-> TRUE,
            spent |-> 0]

ProbeInit ==
    /\ moment = 0
    /\ seen  = [p \in Plane |-> [found \in BOOLEAN |-> Never]]
    /\ probe = [p \in Plane |-> [ready |-> FALSE, checkedAt |-> Never]]
    /\ asker = [t \in Asker |-> Resting]

ProbeTypeOK ==
    /\ moment \in 0 .. LastMoment
    /\ seen \in [Plane -> [BOOLEAN -> 0 .. LastMoment \cup {Never}]]
    /\ probe \in [Plane -> [ready : BOOLEAN, checkedAt : 0 .. LastMoment \cup {Never}]]
    /\ asker \in [Asker ->
          [pc : {"resting", "ask", "decide", "check", "store", "stamp", "answer", "reply"},
           plane : Plane, now : 0 .. LastMoment, found : BOOLEAN, ready : BOOLEAN,
           spent : 0 .. Patience]]

SetAsker(t, state) == asker' = [asker EXCEPT ![t] = state]

\* A request starts with the first plane, and goes on with the next.
AskReady(t) ==
    /\ asker[t].pc \in {"resting", "ask"}
    /\ SetAsker(t, [asker[t] EXCEPT !.pc = "decide", !.now = moment])
    /\ UNCHANGED <<moment, seen, probe>>

CheckedAt(t) == probe[asker[t].plane].checkedAt

\* Seeded fault: a probe that was never used counts as checked when the host booted.
StaleSinceBoot(t) ==
    asker[t].now - (IF CheckedAt(t) = Never THEN 0 ELSE CheckedAt(t)) >= Ttl

IsStale(t) == CheckedAt(t) = Never \/ asker[t].now - CheckedAt(t) >= Ttl

Decide(t) ==
    /\ asker[t].pc = "decide"
    /\ SetAsker(t, IF IsStale(t) THEN [asker[t] EXCEPT !.pc = "check"]
                   ELSE [asker[t] EXCEPT !.pc = "answer", !.now = 0])
    /\ UNCHANGED <<moment, seen, probe>>

\* External: a dependency can serve or not at any time.  A check that raises has found it
\* unavailable.
Findings(p) == IF p \in Trusted THEN {TRUE} ELSE BOOLEAN

RunCheck(t) ==
    LET p == asker[t].plane
    IN  /\ asker[t].pc = "check"
        /\ \E found \in Findings(p) :
              /\ SetAsker(t, [asker[t] EXCEPT !.pc = "store", !.found = found])
              /\ seen' = [seen EXCEPT ![p][found] = moment]
        /\ UNCHANGED <<moment, probe>>

StoreReady(t) ==
    /\ asker[t].pc = "store"
    /\ probe' = [probe EXCEPT ![asker[t].plane].ready = asker[t].found]
    /\ SetAsker(t, [asker[t] EXCEPT !.pc = "stamp", !.found = FALSE])
    /\ UNCHANGED <<moment, seen>>

\* The stamp is the time at which the request asked the probe.
StampChecked(t) ==
    /\ asker[t].pc = "stamp"
    /\ probe' = [probe EXCEPT ![asker[t].plane].checkedAt = asker[t].now]
    /\ SetAsker(t, [asker[t] EXCEPT !.pc = "answer", !.now = 0])
    /\ UNCHANGED <<moment, seen>>

\* The probe's answer; the next probe is asked, or the request has them all.
AnswerReady(t) ==
    LET self  == asker[t]
        ready == self.ready /\ probe[self.plane].ready
    IN  /\ self.pc = "answer"
        /\ SetAsker(t, IF self.plane < NumPlanes
                       THEN [self EXCEPT !.pc = "ask", !.plane = @ + 1, !.ready = ready]
                       ELSE [self EXCEPT !.pc = "reply", !.ready = ready])
        /\ UNCHANGED <<moment, seen, probe>>

\* checks_ready: 200 when every plane is ready, else 503.
Reply(t) ==
    /\ asker[t].pc = "reply"
    /\ SetAsker(t, Resting)
    /\ UNCHANGED <<moment, seen, probe>>

MomentPasses ==
    /\ moment < LastMoment
    /\ \A t \in Asker : asker[t].spent < Patience
    /\ moment' = moment + 1
    /\ asker' = [t \in Asker |->
                   IF asker[t].pc = "resting" THEN Resting ELSE [asker[t] EXCEPT !.spent = @ + 1]]
    /\ UNCHANGED <<seen, probe>>

ProbeStep(t) ==
    \/ AskReady(t) \/ Decide(t) \/ RunCheck(t)
    \/ StoreReady(t) \/ StampChecked(t) \/ AnswerReady(t) \/ Reply(t)

ProbeNext == (\E t \in Asker : ProbeStep(t)) \/ MomentPasses

ProbeSpec == ProbeInit /\ [][ProbeNext]_probeVars

\* "ready" rests, for every plane, on a check that found it able to serve no longer ago
\* than the time a check counts and the time two racing requests take, "not ready" on one
\* that found a plane unable; a fresh process never answers before its first checks.
AnswersAreRecent ==
    \A t \in Asker : asker[t].pc = "reply" =>
        LET recent(p) == moment - seen[p][asker[t].ready] <= Ttl + 2 * Patience
        IN  IF asker[t].ready THEN \A p \in Plane : recent(p) ELSE \E p \in Plane : recent(p)

=============================================================================
