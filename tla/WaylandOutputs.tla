---------------------------- MODULE WaylandOutputs ----------------------------
(***************************************************************************)
(* The outputs of the layer-shell consumer and what the daemon knows of    *)
(* them.  An output keeps a slot; the consumer numbers the slots that are  *)
(* in use, and registers each with its number when the compositor has      *)
(* configured a surface on it.  The protocol has no message that takes an  *)
(* output away, so a change of the set ends the connection and the next    *)
(* one registers all outputs again.  The pointer is on one output.         *)
(*                                                                         *)
(* A monitor that is plugged in has a number of its own here, which the    *)
(* daemon gives back as its output id.  Its description (size, scale,      *)
(* position) is a version that changes.                                    *)
(***************************************************************************)
EXTENDS Lists

CONSTANTS
  MaxSlots,     \* VIVID_WAYLAND_MAX_OUTPUTS
  MaxPlugs,     \* monitors plugged in
  MaxTurns,     \* changes of descriptions
  MaxTransports \* connections

ASSUME OutputsAssumption == {MaxSlots, MaxPlugs, MaxTurns, MaxTransports} \subseteq Nat

VARIABLES
  slots,      \* n_outputs slots
  plugs,      \* monitors plugged in
  turns,      \* changes of descriptions
  transport,  \* number of the connection, 0 when there is none
  transports, \* connections made
  hearing,    \* the daemon has not closed its end
  requests,   \* registrations and updates the daemon has not read
  accepts,    \* OUTPUT_ACCEPTED not read
  daemonHas,       \* daemonHas[b]: description the daemon has of monitor b on the connection
  pointer,    \* slot of pointer_output, or 0
  unsent, \* history: monitors marked as registered by a loop that could not send
  untold,     \* history: monitors that changed before the daemon had answered
  muddled    \* history of the connection, while an answer was due: "moved", the number it
             \* bears was changed; "shared", a slot before the output's had the number too

lapses == << unsent, untold, muddled >>
outputsVars == << slots, plugs, turns, transport, transports, hearing, requests, accepts, daemonHas, pointer, lapses >>

InUse(s)       == slots[s].life # "gone" /\ slots[s].life # "closed"
Publishable(s) == slots[s].life = "shown"
Slot == DOMAIN slots

OutputsInit ==
  /\ slots = << >> /\ plugs = 0 /\ turns = 0
  /\ transport = 0 /\ transports = 0 /\ hearing = FALSE
  /\ requests = << >> /\ accepts = << >> /\ daemonHas = << >> /\ pointer = 0
  /\ unsent = {} /\ untold = {} /\ muddled = {}

-----------------------------------------------------------------------------
(* Helpers.                                                                *)

\* renumber_outputs: those in use, counted from 1.
Renumbered(q) ==
  LET used == {s \in DOMAIN q : q[s].life \notin {"gone", "closed"}} IN
  [s \in DOMAIN q |-> IF s \in used THEN [q[s] EXCEPT !.id = UpTo(used, s)] ELSE q[s]]

Forgotten(q) == [s \in DOMAIN q |-> [q[s] EXCEPT !.registered = FALSE, !.outputId = 0]]

\* vivid_wayland_producer_disconnect, with slots q.
Hangs(q) ==
  /\ slots' = Forgotten(q)
  /\ transport' = 0 /\ hearing' = FALSE
  /\ requests' = << >> /\ accepts' = << >> /\ daemonHas' = << >>
  /\ unsent' = {} /\ untold' = {}
  /\ UNCHANGED transports

SameTransport == UNCHANGED << transport, transports, hearing, accepts, daemonHas, unsent >>
SaysNothing(q) == slots' = q /\ UNCHANGED << requests, untold >> /\ SameTransport

\* Mutant of RestartsTransport: the connection is kept.
KeepsTransport(q) == SaysNothing(q)
\* vivid_wayland_producer_restart_for_topology
RestartsTransport(q) == IF transport # 0 THEN Hangs(q) ELSE SaysNothing(q)

\* output_payload of a registration; an update names the output by the id of the daemon.
Registration(q, s) == [id |-> q[s].id, monitor |-> q[s].monitor, desc |-> q[s].desc]
UpdateOf(q, s) == [id |-> q[s].id, monitor |-> q[s].outputId, desc |-> q[s].desc]

\* vivid_wayland_input_output_destroying
LeavesPointer(s) == pointer' = IF pointer = s THEN 0 ELSE pointer

-----------------------------------------------------------------------------
(* The compositor.                                                         *)

\* add_output: the first slot of a monitor that was unplugged, or a new one.
NewSlot(s) ==
  [life |-> "known", monitor |-> plugs + 1, desc |-> turns, id |-> s,
   registered |-> FALSE, outputId |-> 0]

OutputAdded ==
  LET gone == {s \in Slot : slots[s].life = "gone"}
      s == IF gone = {} THEN Len(slots) + 1 ELSE CHOOSE r \in gone : \A t \in gone : r <= t IN
  /\ plugs < MaxPlugs /\ s <= MaxSlots
  /\ plugs' = plugs + 1
  /\ SaysNothing(IF gone = {} THEN Append(slots, NewSlot(s)) ELSE [slots EXCEPT ![s] = NewSlot(s)])
  /\ UNCHANGED << turns, pointer >>

\* handle_output_done: setup_layer_surface.
OutputDone(s) ==
  /\ slots[s].life = "known"
  /\ SaysNothing(Renumbered([slots EXCEPT ![s].life = "layer"]))
  /\ UNCHANGED << plugs, turns, pointer >>

\* handle_layer_configure, the first time: the other outputs are registered again
\* together with this one.
OutputConfigured(s) ==
  /\ slots[s].life = "layer"
  /\ RestartsTransport([slots EXCEPT ![s].life = "shown"])
  /\ UNCHANGED << plugs, turns, pointer >>

\* handle_layer_closed.  A closed slot keeps its number.
OutputClosed(s) ==
  LET q == Renumbered([slots EXCEPT ![s].life = "closed"]) IN
  /\ slots[s].life \in {"layer", "shown"}
  /\ LeavesPointer(s)
  /\ IF slots[s].life = "shown" \/ slots[s].registered
     THEN RestartsTransport(q)
     ELSE SaysNothing(q)
  /\ UNCHANGED << plugs, turns >>

\* remove_output_by_name.  The others are numbered anew on the same connection when the
\* one that goes had no surface yet.
OutputRemoved(s) ==
  LET q == Renumbered([slots EXCEPT ![s].life = "gone"]) IN
  /\ slots[s].life # "gone"
  /\ LeavesPointer(s)
  /\ IF slots[s].life \in {"layer", "shown"} \/ slots[s].registered
     THEN RestartsTransport(q)
     ELSE SaysNothing(q)
  /\ UNCHANGED << plugs, turns >>

\* Mutant of Updates: nobody is told.
UpdatesNobody(q, s) == SaysNothing(q)
\* vivid_wayland_producer_update_output: of an output the daemon has accepted.
Updates(q, s) ==
  IF Publishable(s) /\ transport # 0 /\ q[s].registered
  THEN IF q[s].outputId = 0
       THEN /\ slots' = q /\ untold' = untold \cup {q[s].monitor}
            /\ UNCHANGED requests /\ SameTransport
       ELSE IF hearing
       THEN /\ slots' = q /\ requests' = Append(requests, UpdateOf(q, s))
            /\ untold' = untold \ {q[s].monitor} /\ SameTransport
       ELSE Hangs(q)
  ELSE SaysNothing(q)

\* Size, scale, position, transform, refresh rate or name change.
OutputChanges(s) ==
  /\ turns < MaxTurns /\ slots[s].life \in {"known", "layer", "shown"}
  /\ turns' = turns + 1
  /\ Updates([slots EXCEPT ![s].desc = turns + 1], s)
  /\ UNCHANGED << plugs, pointer >>

\* handle_pointer_enter, of a surface that exists, and handle_pointer_leave.
PointerEnters(s) ==
  /\ slots[s].life \in {"layer", "shown"} /\ pointer # s /\ pointer' = s
  /\ SaysNothing(slots) /\ UNCHANGED << plugs, turns >>
PointerLeaves ==
  /\ pointer # 0 /\ pointer' = 0
  /\ SaysNothing(slots) /\ UNCHANGED << plugs, turns >>

-----------------------------------------------------------------------------
(* The connection.                                                         *)

\* vivid_wayland_producer_register_outputs: all that are not registered.  When the
\* k-th message cannot be sent the connection ends, inside the loop, all flags are
\* reset, and those of the k-th output and of all after it are set nevertheless.
ToRegister == {s \in Slot : Publishable(s) /\ ~slots[s].registered}

RegistersAll ==
  /\ slots' = [s \in Slot |-> IF s \in ToRegister THEN [slots[s] EXCEPT !.registered = TRUE] ELSE slots[s]]
  /\ requests' = [k \in 1 .. Cardinality(ToRegister) |-> Registration(slots, InOrder(ToRegister)[k])]
  /\ transport' = transports + 1 /\ hearing' = TRUE /\ unsent' = unsent

BreaksOff(k) ==
  LET marked == {s \in Slot : Publishable(s) /\ s >= InOrder(ToRegister)[k]} IN
  /\ slots' = [s \in Slot |-> [slots[s] EXCEPT !.registered = s \in marked, !.outputId = 0]]
  /\ unsent' = {slots[s].monitor : s \in marked}
  /\ transport' = 0 /\ hearing' = FALSE /\ UNCHANGED requests

\* vivid_wayland_producer_connect, from the loop, when the daemon listens.
Connects ==
  /\ transport = 0 /\ transports < MaxTransports /\ Slot # {}
  /\ transports' = transports + 1
  /\ \/ RegistersAll
     \/ \E k \in 1 .. Cardinality(ToRegister) : BreaksOff(k)
  /\ UNCHANGED << plugs, turns, accepts, daemonHas, pointer, untold >>

DaemonReads ==
  LET r == Head(requests) IN
  /\ requests # << >> /\ requests' = Tail(requests)
  /\ daemonHas' = [b \in DOMAIN daemonHas \cup {r.monitor} |-> IF b = r.monitor THEN r.desc ELSE daemonHas[b]]
  /\ accepts' = IF r.monitor \in DOMAIN daemonHas THEN accepts
                ELSE Append(accepts, [id |-> r.id, monitor |-> r.monitor])
  /\ UNCHANGED << slots, plugs, turns, transport, transports, hearing, pointer, unsent, untold >>

DaemonCloses ==
  /\ hearing /\ transports < MaxTransports /\ hearing' = FALSE /\ requests' = << >>
  /\ UNCHANGED << slots, plugs, turns, transport, transports, accepts, daemonHas, pointer, unsent, untold >>

\* handle_output_accepted: the slot that has the number now.
OutputAccepted ==
  LET answer == Head(accepts)
      S == {s \in Slot : slots[s].life # "gone" /\ slots[s].id = answer.id} IN
  /\ accepts # << >>
  /\ slots' = IF S = {} THEN slots
              ELSE [slots EXCEPT ![CHOOSE s \in S : \A r \in S : s <= r].outputId = answer.monitor]
  /\ accepts' = Tail(accepts)
  /\ UNCHANGED << plugs, turns, transport, transports, hearing, requests, daemonHas, pointer, unsent, untold >>

ReadsHangup ==
  /\ transport # 0 /\ ~hearing /\ accepts = << >>
  /\ Hangs(slots)
  /\ UNCHANGED << plugs, turns, pointer >>

\* An output whose answer is due: find_output_by_consumer_id will look for its number.
Waits(q, s) == q[s].life = "shown" /\ q[s].registered /\ q[s].outputId = 0
NamesFirst(q, s) == \A r \in DOMAIN q : r < s /\ q[r].life # "gone" => q[r].id # q[s].id

\* The history of the numbers, over a step on one connection.
Moves(s)  == s \in Slot /\ Waits(slots, s) /\ slots'[s].id # slots[s].id
Shares(s) == ~NamesFirst(slots', s)
Recalled ==
  LET due == {s \in DOMAIN slots' : Waits(slots', s)} IN
  muddled' = IF transport' = 0 THEN {}
             ELSE muddled \cup {how \in {"moved"} : \E s \in due : Moves(s)}
                          \cup {how \in {"shared"} : \E s \in due : Shares(s)}

OutputsStep ==
  \/ OutputAdded
  \/ \E s \in Slot : OutputDone(s) \/ OutputConfigured(s) \/ OutputClosed(s) \/ OutputRemoved(s)
                     \/ OutputChanges(s) \/ PointerEnters(s)
  \/ PointerLeaves \/ Connects \/ DaemonReads \/ DaemonCloses \/ OutputAccepted \/ ReadsHangup

OutputsNext == OutputsStep /\ Recalled

\* Both loops turn.
OutputsFairness ==
  /\ WF_outputsVars(Connects /\ Recalled) /\ WF_outputsVars(DaemonReads /\ Recalled)
  /\ WF_outputsVars(OutputAccepted /\ Recalled) /\ WF_outputsVars(ReadsHangup /\ Recalled)

OutputsSpec == OutputsInit /\ [][OutputsNext]_outputsVars /\ OutputsFairness

-----------------------------------------------------------------------------
\* Types.
OutputsTypeOK ==
  /\ \A s \in Slot : /\ slots[s].life \in {"known", "layer", "shown", "closed", "gone"}
                     /\ slots[s].id \in 1 .. MaxSlots /\ slots[s].outputId \in 0 .. plugs
  /\ transport \in 0 .. transports /\ pointer \in 0 .. Len(slots)
  /\ DOMAIN daemonHas \subseteq 1 .. plugs

\* When everything sent has been read, the daemon has no output the consumer cannot show.
\* It has all others, but for those a failing loop marked without sending; and each with
\* its latest description, but for changes before the answer and a muddled connection.
DaemonSeesOutputs ==
  transport # 0 /\ hearing /\ requests = << >> /\ accepts = << >> =>
    /\ DOMAIN daemonHas \subseteq {slots[s].monitor : s \in {r \in Slot : Publishable(r)}}
    /\ \A s \in Slot : LET m == slots[s].monitor IN
         Publishable(s) /\ m \notin unsent =>
           m \in DOMAIN daemonHas /\ (daemonHas[m] = slots[s].desc \/ m \in untold \/ muddled # {})

\* No two outputs that are shown have the same number.
NumbersAreApart ==
  \A r, s \in Slot : Publishable(r) /\ Publishable(s) /\ slots[r].id = slots[s].id => r = s

\* Buffers and frames for an output go to the monitor they were made for, and its
\* pointer events carry its own id, although slots and numbers are used again: unless
\* a number was changed, or given to a slot that is not shown, with its answer due.
IdsAreOwn ==
  muddled # {} \/ \A s \in Slot : Publishable(s) => slots[s].outputId \in {0, slots[s].monitor}

\* When everything sent has been read each output that can be shown has its id, with the
\* same exceptions: the new connection has replaced the daemon's set of outputs.
ReconnectReplacesOutputs ==
  transport # 0 /\ hearing /\ requests = << >> /\ accepts = << >> /\ muddled = {} =>
    \A s \in Slot : Publishable(s) /\ slots[s].monitor \notin unsent
                      => slots[s].outputId = slots[s].monitor

\* What the comment on the restart says of it: the daemon and the consumer agree on the
\* outputs when a closed surface, or an unplugged monitor, has been replaced by a new
\* connection on which no number moves and every registration is sent.
RestartReplacesOutputs ==
  /\ transport # 0 /\ hearing /\ requests = << >> /\ accepts = << >>
  /\ unsent = {} /\ "moved" \notin muddled
  /\ \A s \in Slot : slots[s].life \notin {"known", "layer"}
  => \A s \in Slot : Publishable(s) => slots[s].outputId = slots[s].monitor

\* The pointer is never left on a surface that was destroyed.
PointerHasSurface == pointer # 0 => slots[pointer].life \in {"layer", "shown"}

OutputsAgree == OutputsTypeOK /\ DaemonSeesOutputs /\ NumbersAreApart /\ IdsAreOwn
                /\ PointerHasSurface /\ ReconnectReplacesOutputs

\* An output that can be shown is accepted in the end, over all restarts, unless a failing
\* loop marked it without sending, or the numbers of a connection were muddled.
OutputsAreAccepted ==
  \A s \in 1 .. MaxSlots :
    (s \in Slot /\ Publishable(s))
      ~> (s \notin Slot \/ ~Publishable(s) \/ slots[s].outputId # 0
          \/ slots[s].monitor \in unsent \/ muddled # {} \/ transports = MaxTransports)
=============================================================================
