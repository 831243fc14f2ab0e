---------------------------- MODULE MCRouteBinding ----------------------------
(***************************************************************************)
(* RouteBinding for TLC: two outputs, linked in one order, of which the    *)
(* first can import every buffer.                                          *)
(***************************************************************************)
EXTENDS RouteBinding

CONSTANTS o1, o2

\* Displays that leave, sends that fail and playback that is paused are for outputs
\* that share a route, where they meet the most.
Settings ==
  /\ links[1] = o1 /\ o1 \notin setting.unfit
  /\ setting.rough \/ ~setting.painting => setting.cloned /\ setting.unfit = {}

SettingsInit == BindingInit /\ Settings

SettingsSpec == SettingsInit /\ [][BindingNext]_bindingVars /\ BindingFairness

\* Any setting of one output.
RoughSpec == BindingSpec /\ setting.rough
=============================================================================
