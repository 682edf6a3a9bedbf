----------------------------- MODULE MCPaperBidAsk -----------------------------
(***************************************************************************)
(* Small recordings for PaperBidAsk: three bars on a grid of three time    *)
(* units around mid 6.  A quote is calm, through a long's stop, or past a  *)
(* long's target but thin; a bar is calm, reaches a long's target, or gaps *)
(* and falls.  One request has a scheduled closure between the first and   *)
(* the third bar; another's entry horizon falls between an original        *)
(* quote's provider time and its commit, and is run with the history of    *)
(* every quote record the runner has accepted.                             *)
(***************************************************************************)
EXTENDS PaperBidAsk

Says(mid, tradeable, deep) == [mid |-> mid, tradeable |-> tradeable, deep |-> deep]
MCQuotes == { Says(6, TRUE, TRUE), Says(3, TRUE, TRUE), Says(9, TRUE, FALSE) }

Candle(o, h, l, c) == [O |-> o, H |-> h, L |-> l, C |-> c]
MCCandles == { Candle(6, 6, 6, 6), Candle(6, 12, 6, 6), Candle(3, 6, 1, 6) }

Plain(family) ==
  [ family |-> family, activation |-> 0, maxHold |-> 0, slot |-> 0,
    dated |-> FALSE, entryUntil |-> Horizon, until |-> Horizon, closures |-> {} ]

Break == {[from |-> 3, through |-> 6]}
MCRequests ==
  { [Plain("orb") EXCEPT !.maxHold = 1, !.activation = 3],
    [Plain("orb") EXCEPT !.slot = 6],
    Plain("dual"),
    [Plain("dual") EXCEPT !.dated = TRUE, !.entryUntil = 7, !.closures = Break] }

VARIABLE accepted   \* the pairs of provider time and content accepted so far

MCInit == Init /\ accepted = {}
MCSpec == MCInit /\ [][Next /\ UNCHANGED accepted]_<<vars, accepted>>

DatedRequest ==
  { [Plain("dual") EXCEPT !.dated = TRUE, !.entryUntil = 4] }

Accept(q) == OnQuote(q) /\ accepted' = accepted \cup {<<q.at, q.content>>}
AcceptQuote ==
  \E t \in CommitTimes, c \in Quotes, k \in Signals \cup {None} :
  \E at, start, qualified \in Recent(t) :
    Accept([at |-> at, start |-> start, qualified |-> qualified, commit |-> t,
            content |-> c, signal |-> k])

QuotesNext ==
  \/ AcceptQuote
  \/ (Bar \/ Episode \/ Seal \/ CoverageGap \/ Closure \/ ExperimentClock)
     /\ UNCHANGED accepted
QuotesSpec == MCInit /\ [][QuotesNext]_<<vars, accepted>>

(* The comment at onQuote: a quote's identity is prefix-wide and           *)
(* independent of position state, and conflicting historical content is    *)
(* always refused.  No two accepted quotes of one provider time differ.    *)
ConflictsRefused ==
  \A q, r \in accepted : q[1] = r[1] => q[2] = r[2]
===============================================================================
