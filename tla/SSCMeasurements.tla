-------------------------- MODULE SSCMeasurements --------------------------
(***************************************************************************)
(* What a sensor promises to an application that connects to its           *)
(* "measurement" signal: of the reports that travel, those dispatched from *)
(* the call of an open to the call of the next close are heard, each once, *)
(* in order, in the application's units, and nothing else is: at the end   *)
(* of that time, or before or after another open is called.  A proximity   *)
(* sensor tells of changes only, the first one after an open being one.    *)
(***************************************************************************)
EXTENDS Integers, Sequences

CONSTANTS
    Measurements,   \* the measurement reports
    Mount,          \* the mount matrix along one axis
    NoValue         \* no measurement

VARIABLES
    type,       \* the data type of the sensor
    reports,    \* reports not dispatched
    listening,  \* an open was called and no close since
    last,       \* the last value of a proximity sensor since then
    due,        \* values the application is about to hear
    heard       \* the last value it heard since it called an open

vars == <<type, reports, listening, last, due, heard>>

\* The values a report must hold.
Needed == [accel |-> 3, gyro |-> 3, mag |-> 3, ambient_light |-> 1, rotv |-> 4, proximity |-> 1]
Types == DOMAIN Needed

\* Complete, of a kind the sensor reports with, and not a negative light.
Wanted(r) ==
    /\ r \in Measurements
    /\ r.id = 1025 \/ type = "proximity"
    /\ IF type = "proximity" THEN r.values = Needed[type] ELSE r.values >= Needed[type]
    /\ type = "ambient_light" => r.value >= 0

\* Accelerations are those of the device, a heading is in 0..359.
Value(r) ==
    CASE type = "accel" -> Mount * r.value
      [] type = "rotv"  -> r.value % 360
      [] OTHER          -> r.value

Init ==
    /\ type = "none" /\ reports = <<>> /\ listening = FALSE
    /\ last = NoValue /\ due = <<>> /\ heard = NoValue

Create ==
    /\ type = "none" /\ type' \in Types
    /\ UNCHANGED <<reports, listening, last, due, heard>>

Open ==
    /\ listening' = TRUE /\ last' = NoValue /\ heard' = NoValue
    /\ UNCHANGED <<type, reports, due>>

\* A close is called, or a sensor whose open has failed is let go.
Close ==
    /\ listening' = FALSE /\ last' = NoValue
    /\ UNCHANGED <<type, reports, due, heard>>

Arrive ==
    /\ \E r \in Measurements \cup {[kind |-> "config"]} : reports' = Append(reports, r)
    /\ UNCHANGED <<type, listening, last, due, heard>>

Take ==
    /\ reports # <<>>
    /\ LET r == Head(reports) IN
       \/ /\ listening /\ Wanted(r) /\ (type = "proximity" => Value(r) # last)
          /\ due' = Append(due, Value(r))
          /\ last' = IF type = "proximity" THEN Value(r) ELSE last
       \/ /\ ~(listening /\ Wanted(r) /\ (type = "proximity" => Value(r) # last))
          /\ UNCHANGED <<due, last>>
    /\ reports' = Tail(reports)
    /\ UNCHANGED <<type, listening, heard>>

Hear ==
    /\ due # <<>>
    /\ heard' = Head(due) /\ due' = Tail(due)
    /\ UNCHANGED <<type, reports, listening, last>>

Release == reports' = <<>> /\ UNCHANGED <<type, listening, last, due, heard>>

Next == Create \/ Open \/ Close \/ Arrive \/ Take \/ Hear \/ Release

Spec == Init /\ [][Next]_vars

=============================================================================
