----------------------------- MODULE EventRange -----------------------------
(***************************************************************************)
(* getContractEvents() of StellarClient: a range of ledgers is read page   *)
(* by page, and halved when the RPC answers that a page is too large.      *)
(* The recursion of fetchContractEventsRange() is a stack of frames, since *)
(* every call awaits the network.                                          *)
(*                                                                         *)
(* The contract's events are numbered; event i is of ledger LedgerOf[i],   *)
(* and its paging token is i.  The RPC answers a request honestly, at most *)
(* `limit' events at a time; a page without events has the request's own   *)
(* cursor for a token, or none.  It may also fail, or answer 413, at will. *)
(***************************************************************************)
EXTENDS Integers, Sequences, SequencesExt

CONSTANTS
  LedgerOf,      \* the ledger of every event, oldest first
  LatestLedgerNow,
  AskedLedgers,  \* ledgers an application asks for
  Rewinds,       \* ledgers that a start time lies back
  PageLimits

ASSUME RangeAssumption ==
  /\ LedgerOf \in Seq(Nat) /\ LatestLedgerNow \in Nat \ {0} /\ PageLimits \subseteq Nat \ {0}
  /\ AskedLedgers \subseteq Nat /\ Rewinds \subseteq Nat
  /\ \A i, j \in DOMAIN LedgerOf : i < j => LedgerOf[i] <= LedgerOf[j]

VARIABLES
  asked,        \* the arguments of getContractEvents()
  frames,       \* the calls of fetchContractEventsRange(), innermost last
  rangeResult   \* what getContractEvents() has come to

rangeVars == <<asked, frames, rangeResult>>

NotGiven == -1
NoToken == 0
Smaller(a, b) == IF a < b THEN a ELSE b
Larger(a, b) == IF a < b THEN b ELSE a

Frame(start, end, cursor) ==
  [start |-> start, end |-> end, cursor |-> cursor, events |-> <<>>, seen |-> {},
   half |-> 0, first |-> [events |-> <<>>, token |-> NoToken]]

RangeInit ==
  /\ asked = [start |-> 1, end |-> 1, cursor |-> NoToken, limit |-> 1, fetchAll |-> FALSE]
  /\ frames = <<>>
  /\ rangeResult = [status |-> "none", events |-> <<>>, token |-> NoToken, dropped |-> FALSE]

\* resolveEndLedger(), resolveStartLedger()
ResolveEnd(end) == IF end = NotGiven THEN LatestLedgerNow ELSE Larger(1, end)
ResolveStart(start, rewind, end) ==
  IF start # NotGiven THEN Larger(1, start)
  ELSE IF rewind = NotGiven THEN end ELSE Larger(1, end - rewind)

\* getContractEvents()
GetContractEvents(start, rewind, end, cursor, limit, fetchAll) ==
  /\ rangeResult.status = "none" /\ frames = <<>>
  /\ LET e == ResolveEnd(end)
         s == ResolveStart(start, rewind, e)
     IN  /\ asked' = [start |-> Smaller(s, e), end |-> Larger(s, e), cursor |-> cursor,
                      limit |-> limit, fetchAll |-> fetchAll]
         /\ frames' = <<Frame(Smaller(s, e), Larger(s, e), cursor)>>
  /\ UNCHANGED rangeResult

Top == frames[Len(frames)]
Calling == frames # <<>> /\ Top.half = 0
WithTop(frame) == [frames EXCEPT ![Len(frames)] = frame]

EventsIn(start, end, cursor) ==
  LET found[i \in 0..Len(LedgerOf)] ==
        IF i = 0 THEN <<>>
        ELSE IF i > cursor /\ LedgerOf[i] \in start..end THEN Append(found[i - 1], i)
        ELSE found[i - 1]
  IN  found[Len(LedgerOf)]

\* Mutant: both halves hold the ledger in the middle.
HalvesOverlapping(frame) ==
  LET midpoint == (frame.start + frame.end) \div 2
  IN  <<Frame(frame.start, midpoint, frame.cursor), Frame(midpoint, frame.end, NoToken)>>

\* The two calls that a call is split into: the first goes on from its cursor,
\* the second has none.
Halves(frame) ==
  LET midpoint == (frame.start + frame.end) \div 2
  IN  <<Frame(frame.start, midpoint, frame.cursor), Frame(midpoint + 1, frame.end, NoToken)>>

\* A call returns to the one that made it, or to the application.
Give(events, token) ==
  [rangeResult EXCEPT !.status = "given", !.events = events, !.token = token]

\* extractPagingToken(): of the response, or else of its last event.
TokensOf(page) == IF page = <<>> THEN {Top.cursor, NoToken} ELSE {Last(page)}

\* getEvents() has answered with a page.
PageArrives ==
  /\ Calling
  /\ LET all == EventsIn(Top.start, Top.end, Top.cursor)
         page == SubSeq(all, 1, Smaller(asked.limit, Len(all)))
         events == Top.events \o page
     IN  \E token \in TokensOf(page) :
           IF asked.fetchAll /\ token # NoToken /\ token \notin Top.seen
           THEN /\ frames' = WithTop([Top EXCEPT !.events = events, !.cursor = token,
                                                 !.seen = @ \cup {token}])
                /\ UNCHANGED rangeResult
           ELSE frames' = Front(frames) /\ rangeResult' = Give(events, token)
  /\ UNCHANGED asked

\* It has answered 413: what the call has collected so far is not returned.
TooLarge ==
  /\ Calling
  /\ IF Top.start < Top.end
     THEN /\ frames' = Append(WithTop([Top EXCEPT !.half = 1]), Halves(Top)[1])
          /\ rangeResult' = [rangeResult EXCEPT !.dropped = @ \/ Top.events # <<>>]
     ELSE frames' = <<>> /\ rangeResult' = [rangeResult EXCEPT !.status = "failed"]
  /\ UNCHANGED asked

\* Another failure, of whichever call, is thrown through all of them.
GetEventsFails ==
  /\ Calling
  /\ frames' = <<>> /\ rangeResult' = [rangeResult EXCEPT !.status = "failed"]
  /\ UNCHANGED asked

\* Half of a range has been read.
HalfReturns ==
  /\ rangeResult.status = "given" /\ frames # <<>>
  /\ IF Top.half = 1 /\ asked.fetchAll
     THEN /\ frames' = Append(WithTop([Top EXCEPT !.half = 2,
                          !.first = [events |-> rangeResult.events, token |-> rangeResult.token]]),
                        Halves(Top)[2])
          /\ rangeResult' = [rangeResult EXCEPT !.status = "none"]
     ELSE /\ frames' = Front(frames)
          /\ rangeResult' =
               IF Top.half = 1 THEN rangeResult
               ELSE Give(Top.first.events \o rangeResult.events,
                         IF rangeResult.token # NoToken THEN rangeResult.token ELSE Top.first.token)
  /\ UNCHANGED asked

RangeNext ==
  \/ \E start, end \in AskedLedgers \cup {NotGiven}, rewind \in Rewinds \cup {NotGiven},
        cursor \in 0..Len(LedgerOf), limit \in PageLimits, fetchAll \in BOOLEAN :
       GetContractEvents(start, rewind, end, cursor, limit, fetchAll)
  \/ PageArrives \/ TooLarge \/ GetEventsFails \/ HalfReturns

RangeSpec == RangeInit /\ [][RangeNext]_rangeVars

-----------------------------------------------------------------------------
(* Properties *)

RangeTypeOK ==
  /\ rangeResult.status \in {"none", "given", "failed"}
  /\ asked.start \in 1..asked.end
  /\ \A n \in DOMAIN frames :
       /\ frames[n].start \in asked.start..frames[n].end /\ frames[n].end <= asked.end
       /\ frames[n].half = 0 <=> n = Len(frames) /\ rangeResult.status # "given"

Answered == rangeResult.status = "given" /\ frames = <<>>
Expected == EventsIn(asked.start, asked.end, asked.cursor)

(* What getContractEvents() returns is in order and holds no event twice; a
   page that comes with a paging token is followed, without a gap, by the page
   of that token; and with fetchAll every event of the range is returned,
   however the range was halved, unless the RPC found a page too large after
   it had given earlier ones.  (An event before the cursor may be returned too,
   as the second half of a range has no cursor.)
   (src/client/stellarClient.ts:1697-1760) *)
RangeIsComplete ==
  Answered =>
    LET got == rangeResult.events
    IN  /\ \A i, j \in DOMAIN got : i < j => got[i] < got[j]
        /\ Range(got) \subseteq Range(EventsIn(asked.start, asked.end, NoToken))
        /\ asked.fetchAll /\ ~rangeResult.dropped => Range(Expected) \subseteq Range(got)
        /\ ~asked.fetchAll =>
             /\ IsPrefix(got, Expected)
             /\ rangeResult.token # NoToken =>
                  \A i \in Range(Expected) : i <= rangeResult.token => i \in Range(got)
=============================================================================
