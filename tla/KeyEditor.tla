------------------------------ MODULE KeyEditor ------------------------------
(***************************************************************************)
(* What the line editor of the host console does, key by key: text goes to *)
(* the end of the line, Backspace takes the last character, Up and Down    *)
(* walk through earlier lines and back to the one that was being typed,    *)
(* Enter and Ctrl+C empty the line, and any other key does nothing.  While *)
(* a command runs, Up and Down do nothing and lines are not remembered.    *)
(***************************************************************************)
EXTENDS Naturals, SequencesExt

CONSTANTS Letters, Limit

VARIABLES
  pressed,  \* the key pressed last
  line,     \* the line
  past,     \* lines entered before
  place,    \* how many lines up the user has walked, 0 for none
  draft,    \* the line when the walk began
  running   \* a command runs

Init ==
  /\ pressed = "none" /\ line = << >> /\ past = << >>
  /\ place = 0 /\ draft = << >> /\ running = FALSE

Type(k) == k \in Letters /\ line' = Append(line, k) /\ UNCHANGED <<past, place, draft>>

Erase ==
  /\ line' = (IF line = << >> THEN line ELSE Front(line))
  /\ UNCHANGED <<past, place, draft>>

Stay == UNCHANGED <<line, past, place, draft>>

Older ==
  /\ place' = (IF place < Len(past) THEN place + 1 ELSE place)
  /\ line' = past[Len(past) + 1 - place']
  /\ draft' = (IF place = 0 THEN line ELSE draft)
  /\ UNCHANGED past

Newer ==
  /\ place > 0
  /\ place' = place - 1
  /\ line' = (IF place' = 0 THEN draft ELSE past[Len(past) + 1 - place'])
  /\ UNCHANGED <<past, draft>>

Up   == IF running \/ past = << >> THEN Stay ELSE Older
Down == IF running \/ past = << >> \/ place = 0 THEN Stay ELSE Newer

\* A walk ends with a line that is remembered, and only then.
Enter ==
  /\ line' = << >>
  /\ IF running \/ line = << >> THEN UNCHANGED <<past, place>>
     ELSE /\ place' = 0
          /\ past' = IF past # << >> /\ Last(past) = line THEN past
                     ELSE IF Len(past) < Limit THEN Append(past, line)
                     ELSE Append(Tail(past), line)
  /\ UNCHANGED draft

Cancel == line' = << >> /\ UNCHANGED <<past, place, draft>>

Press(k) ==
  /\ pressed' = k
  /\ UNCHANGED running
  /\ CASE k \in Letters -> Type(k)
       [] k = "Backspace" -> Erase
       [] k \in {"Up", "Up in application mode", "Ctrl+Up"} -> Up
       [] k = "Down" -> Down
       [] k = "Enter" -> Enter
       [] k = "Ctrl+C" -> Cancel
       [] k \in {"Delete", "Alt+letter"} -> Stay

Run == running' \in BOOLEAN /\ UNCHANGED <<pressed, line, past, place, draft>>

Keys == Letters \union {"Backspace", "Up", "Up in application mode", "Ctrl+Up", "Down", "Enter",
                        "Ctrl+C", "Delete", "Alt+letter"}

Next == Run \/ \E k \in Keys : Press(k)

Spec == Init /\ [][Next]_<<pressed, line, past, place, draft, running>>
=============================================================================
