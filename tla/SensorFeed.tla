----------------------------- MODULE SensorFeed -----------------------------
(***************************************************************************)
(* What the sensor pipeline of crs_demo (and of IoT/server, IoT/client)    *)
(* promises to the Bluetooth peer, without heap, queue, events or threads: *)
(* accepted readings are consumed in the order of their acceptance, each   *)
(* once; the frame on the air is always the frame as it stood right after  *)
(* one HRBO reading was merged into it, and one HRBO reading causes at     *)
(* most one transmission.                                                  *)
(***************************************************************************)
EXTENDS Integers, Sequences

CONSTANTS
  Source,    \* the sensors compiled in
  Value,     \* payloads
  Capacity   \* how many accepted readings may be outstanding

VARIABLES
  backlog,   \* accepted readings that are not merged yet, oldest first
  latest,    \* the frame under construction
  due,       \* an HRBO reading was merged and its frame is not out yet
  air        \* the last frame handed to the Bluetooth stack

feedVars == <<backlog, latest, due, air>>

Reading == [event : Source, data : Value]

\* The frame's cells: temperature, pressure and the 100-byte body.  "zero" is
\* the content of the statically zeroed buffer.
Frame == [temp : Value \cup {"zero"}, press : Value \cup {"zero"}, body : Value \cup {"zero"}]

ZeroFrame == [temp |-> "zero", press |-> "zero", body |-> "zero"]

\* The cell of the frame a sensor's reading lands in.
Cell(s) == CASE s = "AHT20_TS"  -> "temp"
             [] s = "BMP280_PS" -> "press"
             [] OTHER           -> "body"

Merge(frame, reading) == [frame EXCEPT ![Cell(reading.event)] = reading.data]

Init ==
  /\ backlog = <<>>
  /\ latest = ZeroFrame
  /\ due = FALSE
  /\ air = ZeroFrame

\* A reading is taken in, unless the pipeline is full.
Accept(reading) ==
  /\ Len(backlog) < Capacity
  /\ backlog' = Append(backlog, reading)
  /\ UNCHANGED <<latest, due, air>>

\* The oldest reading is merged into the frame.
Consume ==
  /\ ~due
  /\ backlog # <<>>
  /\ latest' = Merge(latest, Head(backlog))
  /\ due' = (Head(backlog).event = "HRBO")
  /\ backlog' = Tail(backlog)
  /\ UNCHANGED air

\* The frame goes out, or is lost (no subscriber, no connection).
Publish ==
  /\ due
  /\ due' = FALSE
  /\ air' \in {latest, air}
  /\ UNCHANGED <<backlog, latest>>

Next ==
  \/ \E reading \in Reading : Accept(reading)
  \/ Consume
  \/ Publish

Spec == Init /\ [][Next]_feedVars
=============================================================================
