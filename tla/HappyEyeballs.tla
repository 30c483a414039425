--------------------------- MODULE HappyEyeballs ---------------------------
(***************************************************************************)
(* A TCP connection to a domain: coordinate_resolution (doradus-runtime,   *)
(* plane/happy_eyeballs.rs) resolves both address families in a task and   *)
(* sends candidates to HappyEyeballsV2Dialer (doradus-core,                *)
(* network/happy_eyeballs.rs), which races them.  A delay that was armed   *)
(* elapses, and the deadline passes, at any later step.  The channel holds *)
(* 32 candidates and does not fill up.                                     *)
(***************************************************************************)
EXTENDS Integers, Sequences, FiniteSets, SequencesExt

CONSTANTS
  Addresses,    (* family -> the distinct addresses a resolver can return  *)
  Permits,      (* permits of the dialer's semaphore                       *)
  Strategies,   (* resolver strategies explored                            *)
  Remembered    (* contents of the address cache explored, for this host   *)

Families == {"v6", "v4"}
Other(f) == IF f = "v6" THEN "v4" ELSE "v6"
Unresolved == <<"unresolved">>
Candidates == Range(Addresses["v6"]) \cup Range(Addresses["v4"])

(* dial_candidates_for_key refuses an empty list.                          *)
ASSUME DialInputs ==
  /\ \A f \in Families : Addresses[f] \in Seq(Range(Addresses[f]))
  /\ \A m \in Remembered : m \in Seq(Range(m))
  /\ (\E s \in Strategies : s[1] = "list") => Addresses["v6"] \o Addresses["v4"] # <<>>

VARIABLES
  strategy,   (* of the resolver policy, or "list": dial_candidates        *)
  fate,       (* candidate -> whether it accepts, refuses or never answers *)
  resolving,  (* the coordinator: see DialInit                             *)
  offered,    (* history: candidates sent to the dialer                    *)
  channel,    (* the mpsc channel, and whether its sender is gone          *)
  dial,       (* the dialer: see DialInit                                  *)
  late,       (* the deadline has passed                                   *)
  remembered  (* the address cache of the host                             *)

dialVars == <<strategy, fate, resolving, offered, channel, dial, late, remembered>>

Outside(s, S) == FoldLeft(LAMBDA kept, a : IF a \in S THEN kept ELSE Append(kept, a), <<>>, s)

(* reorder_candidates: addresses that worked before come first.            *)
Prioritized(s) ==
  Outside(remembered, Range(remembered) \ Range(s)) \o Outside(s, Range(remembered))

(* remember_success                                                        *)
Remember(a) == <<a>> \o Outside(remembered, {a})

-----------------------------------------------------------------------------
(* Mutant of Interleaved: the longer family is cut.                        *)
InterleavedShort(s, t) ==
  LET n == IF Len(s) < Len(t) THEN Len(s) ELSE Len(t)
  IN [i \in 1 .. 2 * n |-> IF i % 2 = 1 THEN s[(i + 1) \div 2] ELSE t[i \div 2]]

(* interleave                                                              *)
Interleaved(s, t) ==
  LET n == IF Len(s) < Len(t) THEN Len(s) ELSE Len(t)
  IN [i \in 1 .. 2 * n |-> IF i % 2 = 1 THEN s[(i + 1) \div 2] ELSE t[i \div 2]]
     \o SubSeq(s, n + 1, Len(s)) \o SubSeq(t, n + 1, Len(t))

(* s is sent and the families F are released.                              *)
Release(r, s, F) ==
  [r EXCEPT !.released = @ \cup F, !.held = [f \in Families |-> IF f \in F THEN <<>> ELSE @[f]],
            !.timer = "none", !.out = @ \o s]

(* The family that a result released leaves nothing to wait for.           *)
Settle(r, f) ==
  IF f \in r.released /\ Other(f) \notin r.released /\ Other(f) \in r.answered
  THEN Release(r, r.held[Other(f)], {Other(f)}) ELSE r

(* coordinate_default_resolution: a family is resolved.                    *)
DefaultResolved(r, f, s) ==
  LET g == [r EXCEPT !.answered = @ \cup {f}, !.held[f] = s]
      both == Interleaved(g.held["v6"], g.held["v4"])
      waits == [g EXCEPT !.timer = "armed"] IN
  Settle(
    IF s = <<>> THEN [g EXCEPT !.released = @ \cup {f}]
    ELSE IF f = "v6"
    THEN IF g.held["v4"] # <<>> THEN Release(g, both, Families)
         ELSE [waits EXCEPT !.started = TRUE, !.held["v6"] = Tail(s), !.out = @ \o <<Head(s)>>]
    ELSE IF g.held["v6"] # <<>> \/ g.started THEN Release(g, both, Families)
    ELSE IF "v6" \in g.answered THEN Release(g, s, {"v4"})
    ELSE waits, f)

(* The delay elapses: what is held is released, and no more waits.         *)
DefaultReleased(r) ==
  LET F == {f \in Families \ r.released : r.held[f] # <<>>}
  IN Release(r, r.held["v6"] \o r.held["v4"], F)

(* Both results and releases are in; or every branch of the select is      *)
(* disabled, on which it panics and the task ends as well.                 *)
DefaultOver(r) == r.answered = Families /\ (r.released = Families \/ r.timer = "none")

(* What the task sends; at its end the sender is dropped.                  *)
Send(r, over) ==
  /\ resolving' = [r EXCEPT !.out = <<>>, !.over = over]
  /\ offered' = offered \o r.out
  /\ channel' = [queue |-> channel.queue \o r.out, closed |-> over]

Resolving == ~resolving.over /\ dial.result = "none"

(* A query of the resolver returns some of the addresses, or an error,     *)
(* which counts as none; under "only" it is sent on as an error.           *)
Resolve(f, n) ==
  LET s == Prioritized(SubSeq(Addresses[f], 1, n))
      r == [resolving EXCEPT !.answered = @ \cup {f}, !.got[f] = s]
      isLast == strategy[1] = "only" \/ s # <<>> \/ f # strategy[2] IN
  /\ Resolving /\ f \notin resolving.answered /\ n \in 0 .. Len(Addresses[f])
  /\ \/ /\ strategy[1] = "default"
        /\ LET d == DefaultResolved([resolving EXCEPT !.got[f] = s], f, s) IN Send(d, DefaultOver(d))
     \/ /\ strategy[1] = "only" /\ f = strategy[2]
        /\ Send([r EXCEPT !.out = s], TRUE)
     \/ /\ strategy[1] = "prefer" /\ (f = strategy[2] \/ strategy[2] \in resolving.answered)
        /\ Send([r EXCEPT !.out = s], isLast)
  /\ UNCHANGED <<strategy, fate, dial, late, remembered>>

FamilyDelay ==
  /\ Resolving /\ strategy[1] = "default" /\ resolving.timer = "armed"
  /\ LET r == DefaultReleased(resolving) IN Send(r, DefaultOver(r))
  /\ UNCHANGED <<strategy, fate, dial, late, remembered>>

-----------------------------------------------------------------------------
(* The dialer.  StartNext pushes the next candidate as an attempt.         *)
StartNext(d) ==
  [d EXCEPT !.waiting = @ \cup {Head(d.pending)}, !.pending = Tail(@), !.start = "armed"]

Started(d) == d.waiting \cup d.connecting

(* Mutant of LoopTop: the loop does not end with the last attempt.         *)
LoopTopEndless(d) ==
  LET l == IF late THEN [d EXCEPT !.pending = <<>>, !.closed = TRUE] ELSE d
  IN IF l.start # "due" THEN l
     ELSE IF l.pending = <<>> THEN [l EXCEPT !.start = "none"] ELSE StartNext(l)

(* Mutant of LoopTop: the candidates not started yet are forgotten.        *)
LoopTopHasty(d) ==
  LET l == IF late THEN [d EXCEPT !.pending = <<>>, !.closed = TRUE] ELSE d
  IN IF l.closed /\ Started(l) = {} THEN [l EXCEPT !.result = "failed"]
     ELSE IF l.start # "due" THEN l
     ELSE IF l.pending = <<>> THEN [l EXCEPT !.start = "none"] ELSE StartNext(l)

(* From the top of the loop to its select, in dial_candidate_stream; the   *)
(* loop of dial_candidates_for_key is the case of a closed source.         *)
LoopTop(d) ==
  LET l == IF late THEN [d EXCEPT !.pending = <<>>, !.closed = TRUE] ELSE d
      s == IF l.start # "due" THEN l
           ELSE IF l.pending = <<>> THEN [l EXCEPT !.start = "none"] ELSE StartNext(l)
  IN IF s.closed /\ Started(s) = {} /\ s.pending = <<>> THEN [s EXCEPT !.result = "failed"]
     ELSE s

Dialing == dial.result = "none"
Quietly == UNCHANGED <<strategy, fate, resolving, offered, late>>

(* A candidate arrives, ...                                                *)
TakeCandidate ==
  /\ Dialing /\ ~dial.closed /\ channel.queue # <<>>
  /\ LET d == [dial EXCEPT !.pending = Append(@, Head(channel.queue))] IN
     dial' = LoopTop(IF Started(dial) = {} /\ dial.pending = <<>> THEN StartNext(d) ELSE d)
  /\ channel' = [channel EXCEPT !.queue = Tail(@)]
  /\ UNCHANGED remembered /\ Quietly

(* ... or the coordinator has ended.                                       *)
SourceCloses ==
  /\ Dialing /\ ~dial.closed /\ channel.queue = <<>> /\ channel.closed
  /\ dial' = LoopTop([dial EXCEPT !.closed = TRUE])
  /\ UNCHANGED <<channel, remembered>> /\ Quietly

(* The delay since the last start is over; only a pending candidate has    *)
(* the loop wait for it.                                                   *)
DelayElapses ==
  /\ Dialing /\ dial.start = "armed"
  /\ dial' = [dial EXCEPT !.start = "due"]
  /\ UNCHANGED <<channel, remembered>> /\ Quietly

(* The sleep of dial_candidate_stream starts the candidate itself, that of *)
(* dial_candidates_for_key leaves it to the top of the loop.               *)
SleepEnds ==
  /\ Dialing /\ dial.start = "due" /\ dial.pending # <<>>
  /\ dial' = LoopTop(IF strategy[1] = "list" THEN dial ELSE StartNext(dial))
  /\ UNCHANGED <<channel, remembered>> /\ Quietly

(* attempt: a permit, then the connection, both until the deadline.        *)
Acquire(a) ==
  /\ Dialing /\ a \in dial.waiting /\ ~late /\ Cardinality(dial.connecting) < Permits
  /\ dial' = [dial EXCEPT !.waiting = @ \ {a}, !.connecting = @ \cup {a}]
  /\ UNCHANGED <<channel, remembered>> /\ Quietly

AttemptFails(a) ==
  /\ Dialing /\ a \in Started(dial)
  /\ late \/ (a \in dial.connecting /\ fate[a] = "refuses")
  /\ dial' = LoopTop([dial EXCEPT !.waiting = @ \ {a}, !.connecting = @ \ {a}, !.failed = @ \cup {a},
                                  !.start = IF dial.pending = <<>> THEN "none" ELSE "due"])
  /\ UNCHANGED <<channel, remembered>> /\ Quietly

(* process_attempt: the winner is remembered, the others are dropped, and  *)
(* with them their permits.                                                *)
Connects(a) ==
  /\ Dialing /\ a \in dial.connecting /\ fate[a] = "accepts"
  /\ dial' = [dial EXCEPT !.waiting = {}, !.connecting = {}, !.pending = <<>>, !.result = "connected"]
  /\ remembered' = Remember(a)
  /\ UNCHANGED channel /\ Quietly

DeadlinePasses ==
  /\ Dialing /\ ~late /\ late' = TRUE
  /\ UNCHANGED <<strategy, fate, resolving, offered, channel, dial, remembered>>

-----------------------------------------------------------------------------
NoFamily == [f \in Families |-> <<>>]

DialInit ==
  /\ strategy \in Strategies
  /\ fate \in [Candidates -> {"accepts", "refuses", "hangs"}]
  /\ remembered \in Remembered
  /\ resolving = [answered |-> {}, got |-> NoFamily, held |-> NoFamily, released |-> {},
                  started |-> FALSE, timer |-> "none", out |-> <<>>, over |-> strategy[1] = "list"]
  /\ channel = [queue |-> <<>>, closed |-> strategy[1] = "list"]
  /\ late = FALSE
  /\ LET list == Prioritized(Addresses["v6"] \o Addresses["v4"])
         idle == [pending |-> <<>>, waiting |-> {}, connecting |-> {}, failed |-> {},
                  start |-> "none", closed |-> FALSE, result |-> "none"] IN
     IF strategy[1] = "list"
     THEN offered = list /\ dial = StartNext([idle EXCEPT !.pending = list, !.closed = TRUE])
     ELSE offered = <<>> /\ dial = idle

DialSteps ==
  \/ \E f \in Families : \E n \in 0 .. Len(Addresses[f]) : Resolve(f, n)
  \/ FamilyDelay \/ TakeCandidate \/ SourceCloses \/ DelayElapses \/ SleepEnds \/ DeadlinePasses
  \/ \E a \in Candidates : Acquire(a) \/ AttemptFails(a) \/ Connects(a)

(* The resolvers answer or fail, and time passes.                          *)
DialSpec == DialInit /\ [][DialSteps]_dialVars /\ WF_dialVars(DialSteps)

-----------------------------------------------------------------------------
(* When the coordinator is done, whichever family answered first and       *)
(* whatever was released early, each address that was resolved has been    *)
(* offered to the dialer once.                                             *)
AllOfferedOnce ==
  resolving.over /\ strategy[1] # "list"
    => /\ Len(offered) = Len(resolving.got["v6"]) + Len(resolving.got["v4"])
       /\ Range(offered) = Range(resolving.got["v6"]) \cup Range(resolving.got["v4"])

(* Before the deadline a dial fails only after every candidate was tried:  *)
(* none is lost between the channel, the queue and the attempts.           *)
FailsOnlyWhenAllTried ==
  dial.result = "failed" /\ ~late
    => resolving.over /\ channel.queue = <<>> /\ Range(offered) = dial.failed

(* No address is lost or repeated on the way from the resolvers through    *)
(* the coordinator and the channel to the attempts, until the deadline.    *)
EveryAddressTried == AllOfferedOnce /\ FailsOnlyWhenAllTried
=============================================================================
