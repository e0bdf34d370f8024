-------------------------- MODULE CoordinatorHistory --------------------------
(***************************************************************************)
(* Coordinator with the history its properties speak of.  The variables of *)
(* this module only observe and restrict nothing.                          *)
(***************************************************************************)
EXTENDS Coordinator

VARIABLES
    asked,     \* a person asked for a refresh, and no poll has begun since
    finished,  \* a cycle finished, and no poll has begun since
    taken      \* the start-up figures were fetched under this setup, and nobody asked since

historyVars == <<asked, finished, taken>>

HistoryInit == Init /\ asked = FALSE /\ finished = FALSE /\ taken = FALSE

PersonAsks   == AskRefresh \/ TakeOver
CycleEnds    == \E d \in Devices, v \in Values : FinalFrame(d, v)
PollBegins   == \E k \in Runners : ~Busy(k) /\ Busy(k)'
OnceBegins   == fetch["once"].at = "idle" /\ fetch'["once"].at # "idle"

ObserveAsked    == asked' = (setUp' /\ ~PollBegins /\ (asked \/ PersonAsks))
ObserveFinished == finished' = (setUp' /\ ~PollBegins /\ (finished \/ CycleEnds))
ObserveTaken    == taken' = (setUp' /\ ~PersonAsks /\ (taken \/ OnceBegins))

HistoryNext == Next /\ ObserveAsked /\ ObserveFinished /\ ObserveTaken

HistorySpec == HistoryInit /\ [][HistoryNext]_<<vars, historyVars>>

-----------------------------------------------------------------------------
\* With readings to show, a poll begins in cooperative mode only if a person asked
\* since the last one began, and in exclusive mode while push delivers only if a
\* person asked or a cycle finished: one request buys one poll, whichever handler
\* consumes it and however long the debouncer held it back (_async_update_data).
PollsAreOwed ==
    [][PollBegins /\ Known(data) =>
        \/ asked \/ PersonAsks
        \/ mode = "exclusive" /\ (~fresh \/ finished \/ CycleEnds)]_<<vars, historyVars>>

\* In cooperative mode the figures are fetched once at start-up and then only when the
\* user asks (docs/accounts.md, in these words).
FiguresTakenOnce ==
    [][taken /\ mode = "cooperative" => ~OnceBegins]_<<vars, historyVars>>
=============================================================================
