---------------------------- MODULE LoginLimiter ----------------------------
(***************************************************************************)
(* POST /api/login and its limiter (app/rate_limit.py): a key is blocked   *)
(* after MaxFailures failures within the window.  The route is a thread of *)
(* the pool; the limiter's lock makes each of its three calls one step,    *)
(* but the clock is read before the lock is taken, and the password is     *)
(* verified between the calls.                                             *)
(***************************************************************************)
EXTENDS Integers, Sequences, FiniteSets

CONSTANTS Keys,        \* client address and user name
          Requests,    \* threads of the pool that serve log-ins
          MaxFailures, Window, MaxKeys,
          MaxClock,    \* bound: ticks of the clock
          MaxGuesses   \* bound: wrong passwords of a key within the window

VARIABLES failures,  \* _failures: key -> times
          clock,
          login,     \* what each thread is in
          guesses,   \* history: wrong passwords within the window, since the last reset
          uncounted  \* history: keys with a failure the limiter does not hold

loginVars == <<failures, clock, login, guesses, uncounted>>

\* at: "check", "verify", "record" or "reset"; now: the time the next call goes by
Idle == [at |-> "idle"]
At(t, at) == login[t].at = at

\* _prune: up to the first one that is not expired.
Prune(times, now) ==
    LET live == {i \in DOMAIN times : times[i] > now - Window} IN
    IF live = {} THEN <<>>
    ELSE SubSeq(times, CHOOSE i \in live : \A j \in live : i <= j, Len(times))

Bucket(k) == IF k \in DOMAIN failures THEN failures[k] ELSE <<>>
With(f, k, times) == [j \in DOMAIN f \cup {k} |-> IF j = k THEN times ELSE f[j]]
Without(f, S) == [j \in DOMAIN f \ S |-> f[j]]

Init == /\ failures = <<>> /\ clock = 0
        /\ login = [t \in Requests |-> Idle]
        /\ guesses = [k \in Keys |-> <<>>] /\ uncounted = {}

Goto(t, at) == login' = [login EXCEPT ![t].at = at, ![t].now = clock]
Answer(t) == login' = [login EXCEPT ![t] = Idle]

Arrive(t, k) ==
    /\ At(t, "idle") /\ Len(guesses[k]) < MaxGuesses
    /\ login' = [login EXCEPT ![t] = [at |-> "check", key |-> k, now |-> clock]]
    /\ UNCHANGED <<failures, clock, guesses, uncounted>>

\* BlockedLate is a bug to rule out: one failure too many.
BlockedLate(times) == Len(times) > MaxFailures
Blocked(times) == Len(times) >= MaxFailures

\* retry_after: a blocked attempt is answered 429 and counts for nothing.
Check(t) ==
    LET k == login[t].key  times == Prune(Bucket(k), login[t].now) IN
    /\ At(t, "check")
    /\ failures' = IF times = <<>> THEN Without(failures, {k}) ELSE With(failures, k, times)
    /\ IF Blocked(times) THEN Answer(t) ELSE Goto(t, "verify")
    /\ UNCHANGED <<clock, guesses, uncounted>>

\* authenticate_user.
Verify(t) ==
    /\ At(t, "verify")
    /\ \/ Goto(t, "reset") /\ UNCHANGED guesses
       \/ /\ Goto(t, "record")
          /\ guesses' = [guesses EXCEPT ![login[t].key] = Append(@, clock)]
    /\ UNCHANGED <<failures, clock, uncounted>>

\* A full table gives up the buckets whose last failure is expired; when none
\* is, the failure of a new key is not counted.
Stale(now) == {k \in DOMAIN failures :
    failures[k] = <<>> \/ failures[k][Len(failures[k])] <= now - Window}

RecordFailure(t) ==
    LET k    == login[t].key
        now  == login[t].now
        full == Cardinality(DOMAIN failures) >= MaxKeys /\ k \notin DOMAIN failures
        gone == IF full THEN Stale(now) ELSE {}
        room == Cardinality(DOMAIN failures \ gone) < MaxKeys \/ ~full
    IN
    /\ At(t, "record")
    /\ failures' = IF room THEN With(Without(failures, gone), k, Append(Prune(Bucket(k), now), now))
                   ELSE Without(failures, gone)
    /\ uncounted' = uncounted \cup (IF room THEN {} ELSE {k})
                      \cup {j \in gone : Prune(failures[j], now) # <<>>}
    /\ Answer(t)
    /\ UNCHANGED <<clock, guesses>>

Reset(t) ==
    LET k == login[t].key IN
    /\ At(t, "reset")
    /\ failures' = Without(failures, {k})
    /\ guesses' = [guesses EXCEPT ![k] = <<>>]
    /\ uncounted' = uncounted \ {k}
    /\ Answer(t)
    /\ UNCHANGED clock

Tick == /\ clock < MaxClock /\ clock' = clock + 1
        /\ guesses' = [k \in Keys |-> Prune(guesses[k], clock')]
        /\ UNCHANGED <<failures, login, uncounted>>

Next == \/ \E t \in Requests : \/ \E k \in Keys : Arrive(t, k)
                               \/ Check(t) \/ Verify(t) \/ RecordFailure(t) \/ Reset(t)
        \/ Tick

-----------------------------------------------------------------------------
\* Within a window a key has at most MaxFailures wrong passwords verified, and
\* one more for each log-in that may pass the check beside the last, unless a
\* failure was not counted (SlidingWindowLimiter, login of app/main.py).
GuessesBounded ==
    \A k \in Keys \ uncounted :
        Len(guesses[k]) <= MaxFailures + Cardinality(Requests) - 1
=============================================================================
