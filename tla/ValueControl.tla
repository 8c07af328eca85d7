---------------------------- MODULE ValueControl ----------------------------
(***************************************************************************)
(* A number that is edited in place (frontend/src/api/ValueControl.tsx), as  *)
(* Debug.tsx uses it.  What the browser shows is a text of its own: it is    *)
(* drawn when the number changes, and otherwise is what the user typed.  It  *)
(* is drawn before an effect limits the number and has it drawn again.        *)
(***************************************************************************)
EXTENDS Integers

CONSTANTS
  ValueMin, ValueMax, Increment,   (* props                                  *)
  TypedNumbers,                    (* numbers the user types                 *)
  NotANumber,                      (* NaN, and the text it is drawn as       *)
  AWord,                           (* another text that is not a number      *)
  Nothing,                         (* no text                                *)
  MaxValueActs                     (* bound: what the user does              *)

ASSUME ValueAssumption ==
  /\ ValueMin \in Int /\ ValueMax \in Int /\ ValueMin <= ValueMax
  /\ Increment \in Int /\ TypedNumbers \subseteq Int
  /\ NotANumber \notin Int /\ AWord \notin Int /\ Nothing \notin Int
  /\ NotANumber # AWord /\ NotANumber # Nothing /\ AWord # Nothing
  /\ MaxValueActs \in Nat

VARIABLES
  number,              (* props.value                                         *)
  text,                (* ref.textContent                                     *)
  last_input_value,
  valueActs

vars_y == <<number, text, last_input_value, valueActs>>

ValueInit ==
  /\ number \in ValueMin .. ValueMax /\ text = number
  /\ last_input_value = Nothing /\ valueActs = 0

(* The effect; a comparison with NaN is false.                               *)
Limited(v) ==
  IF v = NotANumber THEN v
  ELSE IF v < ValueMin THEN ValueMin
  ELSE IF v > ValueMax THEN ValueMax
  ELSE v

(* onChange with v while the text is t: drawn when it differs from the number  *)
Changes(v, t) ==
  /\ number' = Limited(v)
  /\ text' = IF v = number THEN t ELSE Limited(v)

NumberOf(t) == IF t = AWord THEN NotANumber ELSE t

(* The user edits the text and leaves it.  It is emptied only after something *)
(* was typed or stepped before.                                               *)
Blur(t) ==
  /\ valueActs < MaxValueActs /\ valueActs' = valueActs + 1
  /\ t = Nothing => last_input_value # Nothing
  /\ IF t = Nothing \/ t = last_input_value
     THEN text' = last_input_value /\ UNCHANGED <<number, last_input_value>>
     ELSE last_input_value' = t /\ Changes(NumberOf(t), t)

Stepped(v) == v

Step(d) ==
  LET v == IF number = NotANumber THEN number ELSE number + d
  IN /\ valueActs < MaxValueActs /\ valueActs' = valueActs + 1
     /\ Changes(v, text)
     /\ last_input_value' = Stepped(Limited(v))

ValueNext ==
  \/ \E t \in TypedNumbers \cup {Nothing, NotANumber, AWord} : Blur(t)
  \/ \E d \in {Increment, 0 - Increment} : Step(d)

------------------------------------------------------------------------------
ValueTypeOK ==
  /\ number \in Int \cup {NotANumber}
  /\ text \in Int \cup {NotANumber, AWord}
  /\ last_input_value \in Int \cup {NotANumber, AWord, Nothing}
  /\ valueActs \in 0 .. MaxValueActs

(* The number is within the limits, or not a number.                           *)
LimitsHold == number = NotANumber \/ number \in ValueMin .. ValueMax

(* A number that is shown and is within the limits is the one that was set.    *)
(* What else is shown is a word, or a number outside the limits that was typed  *)
(* twice or put back (last_input_value keeps what was typed, though the effect *)
(* replaced it).                                                               *)
ShownIsSet == text \in ValueMin .. ValueMax => text = number
=============================================================================
