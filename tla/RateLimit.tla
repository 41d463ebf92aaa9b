------------------------------ MODULE RateLimit ------------------------------
(***************************************************************************)
(* TokenBucket (internal/torbox/limiter.go).  The bucket is a Go channel:  *)
(* a caller that finds it empty joins the channel's line of receivers,     *)
(* which is first come, first served, and the ticker's token goes to the   *)
(* first in line without ever being in the bucket.                         *)
(*                                                                         *)
(* `window' and `passed' are there for RateBound only: they count ticks    *)
(* and tokens handed out since a refill period began.                      *)
(***************************************************************************)
EXTENDS Naturals, Sequences, SequencesExt

CONSTANTS
    Callers,
    Capacity    \* of the bucket, and the ticks in a refill period

ASSUME RateAssumption == Capacity \in Nat \ {0}

VARIABLES
    tokens,     \* tokens in the channel
    line,       \* callers waiting for one
    granted,    \* callers whose Wait has returned nil
    cancelled,  \* the context is done
    window,     \* ticks in this refill period
    passed      \* Waits that returned nil in this refill period

bucket == << tokens, line, granted, cancelled, window, passed >>

BucketTypeOK ==
    /\ tokens \in 0..Capacity
    /\ line \in Seq(Callers) /\ IsInjective(line)
    /\ granted \subseteq Callers
    /\ cancelled \in BOOLEAN
    /\ window \in 0 .. Capacity - 1
    /\ passed \in Nat

(* NewTokenBucket fills the channel.                                       *)
BucketInit ==
    /\ tokens = Capacity
    /\ line = << >> /\ granted = {}
    /\ cancelled = FALSE
    /\ window = 0 /\ passed = 0

Outside(c) == c \notin granted /\ ~ Contains(line, c)

(* Wait.  With a token there and the context done the select may go either *)
(* way.                                                                    *)
TakeToken(c) ==
    /\ Outside(c)
    /\ tokens > 0
    /\ tokens' = tokens - 1
    /\ granted' = granted \cup {c}
    /\ passed' = passed + 1
    /\ UNCHANGED << line, cancelled, window >>

JoinLine(c) ==
    /\ Outside(c)
    /\ tokens = 0
    /\ ~ cancelled
    /\ line' = Append(line, c)
    /\ UNCHANGED << tokens, granted, cancelled, window, passed >>

(* ctx.Done() while waiting.                                               *)
GiveUpWaiting(c) ==
    /\ cancelled
    /\ \E i \in DOMAIN line : line[i] = c /\ line' = RemoveAt(line, i)
    /\ UNCHANGED << tokens, granted, cancelled, window, passed >>

(* The refill goroutine: a token for the first in line, or for the         *)
(* channel, or none if that is full.                                       *)
(* Variant: the send does not give up when the channel is full.            *)
RefilledAlways(n) == n + 1

Refilled(n) == IF n < Capacity THEN n + 1 ELSE n

(* Variant: the last to come is served first.                              *)
LastInLine(q) == [first |-> Last(q), rest |-> Front(q)]

InLine(q) == [first |-> Head(q), rest |-> Tail(q)]

Period == window' = IF window + 1 < Capacity THEN window + 1 ELSE 0

Tick ==
    /\ Period
    /\ LET base == IF window' = 0 THEN 0 ELSE passed
       IN  IF line = << >>
           THEN /\ tokens' = Refilled(tokens)
                /\ passed' = base
                /\ UNCHANGED << line, granted >>
           ELSE /\ line' = InLine(line).rest
                /\ granted' = granted \cup { InLine(line).first }
                /\ passed' = base + 1
                /\ UNCHANGED tokens
    /\ UNCHANGED cancelled

(* What a caller does when it has made its request.                        *)
Spend(c) ==
    /\ c \in granted
    /\ granted' = granted \ {c}
    /\ UNCHANGED << tokens, line, cancelled, window, passed >>

Cancel ==
    /\ ~ cancelled
    /\ cancelled' = TRUE
    /\ UNCHANGED << tokens, line, granted, window, passed >>
=============================================================================
