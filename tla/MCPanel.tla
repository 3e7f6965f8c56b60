------------------------------ MODULE MCPanel -------------------------------
(***************************************************************************)
(* A small instance of Players and of Pages: the API's windows, its        *)
(* tracker and its allowlist syncs, and the pages in a tab of a browser.   *)
(*                                                                         *)
(* The syncs never read the windows or the clock, the windows never read   *)
(* the syncs or the tracker, and of all this a page sees versions only, so *)
(* their product shows nothing that they do not show one by one: once the  *)
(* clock has moved, a request has gone through the limiter, or there were  *)
(* more joins than players, only what the windows do is explored, and only *)
(* one of the API's parts and the tab does anything at all.                *)
(***************************************************************************)
EXTENDS Players, Pages

panelVars == <<playersVars, pagesVars>>

PanelInit == PlayersInit /\ PagesInit

\* One of the two has done nothing yet, and is left alone.
TabAlone ==
  /\ faults = 0 /\ joins = {} /\ clock = 0 /\ granted = {}
  /\ \A q \in Syncs : request[q] = "none"
  /\ UNCHANGED playersVars
ApiAlone == open = "elsewhere" /\ present = 0 /\ UNCHANGED pagesVars

PanelNext == (PlayersNext /\ ApiAlone) \/ (PagesNext /\ TabAlone)

\* As long as there are requests some of them go on, to be answered by the API
\* or given up by the browser, and timers tick.
PanelSpec ==
  /\ PanelInit /\ [][PanelNext]_panelVars
  /\ WF_panelVars((\E k \in Slots : Progress(k)) /\ TabAlone)
  /\ WF_panelVars((\E k \in Slots : Poll(k)) /\ TabAlone)

Separate ==
  clock > 0 \/ granted # {} \/ Cardinality(joins) > Cardinality(Players)
    => /\ \A q \in Syncs : request[q] = "none"
       /\ \A p \in Players : tracked[p] = Nowhere
       /\ agentUp /\ faults = 0

=============================================================================
