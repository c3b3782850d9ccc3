----------------------------- MODULE LineEditor -----------------------------
(***************************************************************************)
(* zmux/pty_session.py: the host console's line editor.  Characters arrive *)
(* one by one, in as many calls of write_input as the terminal likes, and  *)
(* a key that is not text is an escape sequence of several; the editor     *)
(* keeps the line, the history and a position in it.                       *)
(*                                                                         *)
(* The keys here are complete sequences.  A lone Escape swallows the next  *)
(* character, and Escape before an arrow puts the arrow's letters into the *)
(* line: both are left out, as are characters wider than one cell.         *)
(***************************************************************************)
EXTENDS Integers, SequencesExt

CONSTANTS
  Letters,   \* text
  Limit,     \* HISTORY_LIMIT
  MaxKeys    \* bound: keys pressed

ASSUME LimitAssumption == Limit \in Nat \ {0} /\ MaxKeys \in Nat

VARIABLES
  buffer,    \* _line_buffer
  esc,       \* _esc_state
  history,   \* _history
  index,     \* _history_index, 0 for None
  stash,     \* _history_stash
  busy,      \* _busy
  queued,    \* commands that wait or run
  key,       \* the key pressed last, "none" before the first
  doing,     \* the key under way, or "none"
  left,      \* the characters of it that are still to come
  keys       \* keys pressed so far

editorVars == <<buffer, esc, history, index, stash, busy, queued, key, doing, left, keys>>

EditorInit ==
  /\ buffer = << >> /\ esc = "" /\ history = << >> /\ index = 0 /\ stash = << >>
  /\ busy = FALSE /\ queued = 0 /\ key = "none" /\ doing = "none" /\ left = << >> /\ keys = 0

-----------------------------------------------------------------------------
(* The characters xterm.js sends for a key.                                *)

SpecialKeys == {"Backspace", "Up", "Up in application mode", "Ctrl+Up", "Down", "Enter",
                "Ctrl+C", "Delete", "Alt+letter"}
Characters(k) ==
  CASE k \in Letters -> <<k>>
    [] k = "Backspace" -> <<"DEL">>
    [] k = "Enter"     -> <<"CR">>
    [] k = "Ctrl+C"    -> <<"ETX">>
    [] k = "Up"        -> <<"ESC", "[", "A">>
    [] k = "Down"      -> <<"ESC", "[", "B">>
    [] k = "Up in application mode" -> <<"ESC", "O", "A">>
    [] k = "Ctrl+Up"   -> <<"ESC", "[", "1", ";", "5", "A">>
    [] k = "Delete"    -> <<"ESC", "[", "3", "~">>
    [] k = "Alt+letter" -> <<"ESC", "x">>

Final == {"A", "B", "~"}  \* _CSI_FINAL_BYTES

\* Text is neither a control character nor the name of a key.
ASSUME LettersAssumption ==
  Letters \intersect (SpecialKeys \union {"ESC", "DEL", "CR", "ETX", "none"}) = {}

-----------------------------------------------------------------------------
(* History.                                                                *)

ReplaceLine(text) == buffer' = text

\* Mutant: the line being typed is not kept.
HistoryStepNoStash(direction) ==
  LET from == IF index = 0 THEN Len(history) + 1 ELSE index
      to   == from + direction
  IN  IF busy \/ history = << >> \/ (index = 0 /\ direction > 0)
      THEN UNCHANGED <<buffer, index, stash>>
      ELSE /\ UNCHANGED stash
           /\ IF to > Len(history) THEN index' = 0 /\ ReplaceLine(stash)
              ELSE /\ index' = (IF to < 1 THEN 1 ELSE to)
                   /\ ReplaceLine(history[index'])

HistoryStep(direction) ==
  LET from == IF index = 0 THEN Len(history) + 1 ELSE index
      to   == from + direction
  IN  IF busy \/ history = << >> \/ (index = 0 /\ direction > 0)
      THEN UNCHANGED <<buffer, index, stash>>
      ELSE /\ stash' = IF index = 0 THEN buffer ELSE stash
           /\ IF to > Len(history) THEN index' = 0 /\ ReplaceLine(stash')
              ELSE /\ index' = (IF to < 1 THEN 1 ELSE to)
                   /\ ReplaceLine(history[index'])

HistoryRecord(line) ==
  LET all == Append(history, line) IN
  /\ history' = IF history # << >> /\ Last(history) = line THEN history
                ELSE SubSeq(all, IF Len(all) > Limit THEN Len(all) - Limit + 1 ELSE 1, Len(all))
  /\ index' = 0

\* _submit_line: input of the running command; a blank line; or a line to run,
\* which the worker does unless the session itself answers it.
SubmitLine(line) ==
  IF busy \/ line = << >> THEN UNCHANGED <<history, index, queued>>
  ELSE HistoryRecord(line) /\ queued' \in {queued, queued + 1}

-----------------------------------------------------------------------------
(* _handle_char and _handle_escape_char.                                   *)

Step(direction) == HistoryStep(direction) /\ UNCHANGED <<history, queued>>
Idle == UNCHANGED <<buffer, history, index, stash, queued>>

EscapeChar(c) ==
  \/ /\ esc = "" /\ esc' = "esc"
     /\ Idle
  \/ /\ esc = "esc" /\ esc' = (IF c = "[" THEN "csi" ELSE IF c = "O" THEN "ss3" ELSE "")
     /\ Idle
  \/ /\ esc \in {"ss3", "csi"}
     /\ esc' = (IF esc = "ss3" \/ c \in Final THEN "" ELSE esc)
     /\ CASE c = "A" -> Step(-1) [] c = "B" -> Step(1) [] OTHER -> Idle

PlainChar(c) ==
  /\ UNCHANGED esc
  /\ CASE c = "ETX" -> buffer' = << >> /\ UNCHANGED <<history, index, stash, queued>>
       [] c = "DEL" -> /\ buffer' = (IF buffer = << >> THEN buffer ELSE Front(buffer))
                       /\ UNCHANGED <<history, index, stash, queued>>
       [] c = "CR"  -> /\ SubmitLine(buffer)
                       /\ buffer' = << >> /\ UNCHANGED stash
       [] OTHER     -> buffer' = Append(buffer, c) /\ UNCHANGED <<history, index, stash, queued>>

HandleChar(c) == IF esc # "" \/ c = "ESC" THEN EscapeChar(c) ELSE PlainChar(c)

-----------------------------------------------------------------------------
\* The first character of a key, or the next one.
Receive(k, characters) ==
  /\ HandleChar(Head(characters))
  /\ left' = Tail(characters)
  /\ doing' = IF left' = << >> THEN "none" ELSE k
  /\ key' = IF left' = << >> THEN k ELSE key
  /\ UNCHANGED busy

PressKey(k) ==
  /\ doing = "none" /\ keys < MaxKeys
  /\ keys' = keys + 1
  /\ Receive(k, Characters(k))

GoOn ==
  /\ doing # "none"
  /\ Receive(doing, left)
  /\ UNCHANGED keys

\* The worker, at any moment.
BeginCommand ==
  /\ ~ busy /\ queued > 0
  /\ busy' = TRUE
  /\ UNCHANGED <<buffer, esc, history, index, stash, queued, key, doing, left, keys>>

EndCommand ==
  /\ busy
  /\ busy' = FALSE /\ queued' = queued - 1
  /\ UNCHANGED <<buffer, esc, history, index, stash, key, doing, left, keys>>

EditorRest == doing = "none" /\ queued = 0 /\ UNCHANGED editorVars

EditorNext ==
  \/ \E k \in Letters \union SpecialKeys : PressKey(k)
  \/ GoOn \/ BeginCommand \/ EndCommand \/ EditorRest

EditorSpec == EditorInit /\ [][EditorNext]_editorVars

-----------------------------------------------------------------------------
Editor == INSTANCE KeyEditor WITH
  pressed <- key, line <- buffer, past <- history, draft <- stash, running <- busy,
  place <- IF index = 0 THEN 0 ELSE Len(history) + 1 - index

\* However the characters are split, and whenever commands begin and end, the
\* editor does for every key what KeyEditor says and nothing in the middle of
\* one: no part of an escape sequence gets into the line, Up and Down recall
\* the right lines, and the line being typed comes back.
ImplementsKeys == Editor!Spec
=============================================================================
