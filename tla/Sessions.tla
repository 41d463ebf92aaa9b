------------------------------- MODULE Sessions ------------------------------
(***************************************************************************)
(* qBittorrent sessions: internal/auth/qbit.go over the qbit_sessions      *)
(* table, and the pruner that empties it (runPruner).  A session lasts ttl *)
(* from its login.  A request is let in by comparing times, a session is   *)
(* pruned by comparing texts.                                              *)
(***************************************************************************)
EXTENDS TimeText, Integers

CONSTANTS
    Sids,       \* the session ids RandomHex returns
    ttl,        \* in ticks
    MaxTime     \* bound: the end of time

ASSUME SessionAssumption == ttl \in Nat \ {0} /\ MaxTime \in Nat

VARIABLES
    now,
    sessions,   \* expires_at of each session in the table, or None
    loggedIn,   \* when each session was created, or Never
    loggedOut,  \* the sessions whose client has logged out
    pruned      \* when the pruner last ran, or Never

vars == << now, sessions, loggedIn, loggedOut, pruned >>

Times == 0..MaxTime

None == << >>

Never == -1

TypeOK ==
    /\ now \in Times
    /\ \A s \in Sids :
          sessions[s] \in { None } \cup { formatTime(t + ttl) : t \in Times }
    /\ loggedIn \in [Sids -> Times \cup { Never }]
    /\ loggedOut \subseteq Sids
    /\ pruned \in Times \cup { Never }

Init ==
    /\ now = 0
    /\ sessions = [s \in Sids |-> None]
    /\ loggedIn = [s \in Sids |-> Never]
    /\ loggedOut = {}
    /\ pruned = Never

parseTime(text) == CHOOSE t \in 0 .. MaxTime + ttl : formatTime(t) = text

(* Variant: the ttl is left out.                                           *)
ExpiresNow == now

ExpiresAt == now + ttl

(* Ids are random: no two logins get the same.                             *)
Login(s) ==
    /\ loggedIn[s] = Never
    /\ sessions' = [sessions EXCEPT ![s] = formatTime(ExpiresAt)]
    /\ loggedIn' = [loggedIn EXCEPT ![s] = now]
    /\ UNCHANGED << now, loggedOut, pruned >>

Logout(s) ==
    /\ loggedIn[s] # Never
    /\ sessions' = [sessions EXCEPT ![s] = None]
    /\ loggedOut' = loggedOut \cup {s}
    /\ UNCHANGED << now, loggedIn, pruned >>

(* Variant: compared as texts.                                             *)
ValidByText(s) ==
    /\ sessions[s] # None
    /\ ~ NotAfter(sessions[s], formatTime(now))

(* What Middleware asks of each request: parsed, compared as times.        *)
Valid(s) ==
    /\ sessions[s] # None
    /\ parseTime(sessions[s]) > now

(* PruneExpiredQBitSessions: expires_at <= now, as text.                   *)
(* Variant: the sessions that are still good are deleted.                  *)
ExpiredSwapped(s) == NotAfter(formatTime(now), sessions[s])

Expired(s) == NotAfter(sessions[s], formatTime(now))

PruneExpiredQBitSessions ==
    /\ sessions' = [s \in Sids |-> IF sessions[s] # None /\ Expired(s)
                                   THEN None ELSE sessions[s]]
    /\ pruned' = now
    /\ UNCHANGED << now, loggedIn, loggedOut >>

Advance ==
    /\ now < MaxTime
    /\ now' = now + 1
    /\ UNCHANGED << sessions, loggedIn, loggedOut, pruned >>

Next ==
    \/ \E s \in Sids : Login(s) \/ Logout(s)
    \/ PruneExpiredQBitSessions
    \/ Advance

Spec == Init /\ [][Next]_vars

-----------------------------------------------------------------------------
(***************************************************************************)
(* Properties                                                              *)
(***************************************************************************)

Lives(s) == loggedIn[s] # Never /\ s \notin loggedOut

(* A request is let in on a session exactly as long as it should be, but   *)
(* for the second in which it expires: there the pruner, which compares    *)
(* text, may have deleted it already.                                      *)
LetIn ==
    \A s \in Sids :
        /\ Valid(s) => Lives(s) /\ now < loggedIn[s] + ttl
        /\ Lives(s) /\ SecondOf(now) < SecondOf(loggedIn[s] + ttl)
              => Valid(s)

(* When the pruner has run, what is left is good, or expired in the very   *)
(* second it ran.                                                          *)
Swept ==
    \A s \in Sids :
        sessions[s] # None /\ pruned # Never /\ loggedIn[s] <= pruned
            => SecondOf(loggedIn[s] + ttl) >= SecondOf(pruned)

(* The order of texts is the order of times between different seconds: a   *)
(* job is claimed (next_run_at <= now), a removed row deleted (updated_at  *)
(* <= cutoff) and a session pruned less than a second early or late.       *)
TextOrder ==
    \A t \in Times :
        /\ SecondOf(t) < SecondOf(now) => Before(formatTime(t), formatTime(now))
        /\ SecondOf(now) < SecondOf(t) => Before(formatTime(now), formatTime(t))
        /\ formatTime(t) = formatTime(now) => t = now
=============================================================================
