---------------------------- MODULE ConsoleOutput ----------------------------
(***************************************************************************)
(* zmux/pty_session.py, _emit: what a shell prints goes through a filter   *)
(* for the private control sequence of zmux-setup-storage, then into the   *)
(* scrollback and to the clients.  A sequence may be cut anywhere by the   *)
(* reads of the terminal, so the start of one is kept back until the rest  *)
(* comes.  Each emitter is a thread that calls _emit; the part kept back   *)
(* belongs to the session, and no lock protects it.                        *)
(***************************************************************************)
EXTENDS Naturals, SequencesExt

CONSTANTS
  Emitters,   \* threads that print
  Bytes,      \* what they print
  Control,    \* _STORAGE_SETUP_OSC
  MaxSize,    \* scrollback_max_size
  MaxBytes    \* bound: bytes printed

ASSUME ControlAssumption ==
  /\ Control \in Seq(Bytes) /\ Control # << >>
  /\ \A i \in 2 .. Len(Control) : Control[i] # Control[1]
ASSUME SizeAssumption == MaxSize \in Nat \ {0} /\ MaxBytes \in Nat

VARIABLES
  stream,      \* all bytes printed, in the order of the calls
  tail,        \* _pty_control_tail
  step,        \* step[e]: where the emitter is
  input,       \* input[e]: the bytes it has yet to filter
  hand,        \* hand[e]: the bytes that came through
  found,       \* found[e]: controls it has yet to act on
  recorded,    \* all bytes that went to the scrollback and to the clients
  scrollback,  \* scrollback_buffer
  asking,      \* _storage_setup_pending
  setups       \* storage setups started

outputVars == <<stream, tail, step, input, hand, found, recorded, scrollback, asking, setups>>

OutputInit ==
  /\ stream = << >> /\ tail = << >> /\ recorded = << >> /\ scrollback = << >>
  /\ step = [e \in Emitters |-> "idle"]
  /\ input = [e \in Emitters |-> << >>] /\ hand = [e \in Emitters |-> << >>]
  /\ found = [e \in Emitters |-> 0]
  /\ asking = FALSE /\ setups = 0

Advance(e, from, to) == step[e] = from /\ step' = [step EXCEPT ![e] = to]

-----------------------------------------------------------------------------
(* _filter_pty_controls                                                    *)

\* Where a control starts in s.
StartsAt(s) ==
  {i \in 1 .. Len(s) - Len(Control) + 1 : SubSeq(s, i, i + Len(Control) - 1) = Control}

\* _possible_control_prefix: how much of the end of s may start a control.
KeptBack(s) ==
  CHOOSE n \in 0 .. Len(Control) - 1 :
    /\ n <= Len(s) /\ SubSeq(s, Len(s) - n + 1, Len(s)) = SubSeq(Control, 1, n)
    /\ \A m \in n + 1 .. Len(Control) - 1 :
         m <= Len(s) => SubSeq(s, Len(s) - m + 1, Len(s)) # SubSeq(Control, 1, m)

\* The part kept back is taken together with what was just read.
Take(e, data) ==
  /\ Len(stream) + Len(data) <= MaxBytes
  /\ Advance(e, "idle", "filter")
  /\ stream' = stream \o data
  /\ input' = [input EXCEPT ![e] = tail \o data]
  /\ tail' = << >>
  /\ UNCHANGED <<hand, found, recorded, scrollback, asking, setups>>

\* A turn of the loop: what is before the first control comes through.
Cut(e) ==
  LET starts == StartsAt(input[e]) IN
  /\ step[e] = "filter"
  /\ \E at \in starts :
       /\ \A i \in starts : at <= i
       /\ hand' = [hand EXCEPT ![e] = @ \o SubSeq(input[e], 1, at - 1)]
       /\ input' = [input EXCEPT ![e] = SubSeq(@, at + Len(Control), Len(@))]
  /\ found' = [found EXCEPT ![e] = @ + 1]
  /\ UNCHANGED <<stream, tail, step, recorded, scrollback, asking, setups>>

\* The last turn, without a control: the start of one is kept back.
PassBut(e, keep) ==
  LET n == Len(input[e]) - keep IN
  /\ StartsAt(input[e]) = {}
  /\ Advance(e, "filter", "request")
  /\ hand' = [hand EXCEPT ![e] = @ \o SubSeq(input[e], 1, n)]
  /\ tail' = IF keep = 0 THEN tail ELSE SubSeq(input[e], n + 1, Len(input[e]))
  /\ input' = [input EXCEPT ![e] = << >>]
  /\ UNCHANGED <<stream, found, recorded, scrollback, asking, setups>>

\* Mutant: nothing is kept back.
PassAll(e) == PassBut(e, 0)

Pass(e) == PassBut(e, KeptBack(input[e]))

-----------------------------------------------------------------------------
(* _request_storage_setup: the flag is tested, then set.                   *)

AskedBefore(e) ==
  /\ step[e] = "request" /\ found[e] > 0 /\ asking
  /\ found' = [found EXCEPT ![e] = @ - 1]
  /\ UNCHANGED <<stream, tail, step, input, hand, recorded, scrollback, asking, setups>>

Ask(e) ==
  /\ found[e] > 0 /\ ~ asking
  /\ Advance(e, "request", "asked")
  /\ UNCHANGED <<stream, tail, input, hand, found, recorded, scrollback, asking, setups>>

BeginSetup(e) ==
  /\ Advance(e, "asked", "request")
  /\ asking' = TRUE /\ setups' = setups + 1
  /\ found' = [found EXCEPT ![e] = @ - 1]
  /\ UNCHANGED <<stream, tail, input, hand, recorded, scrollback>>

\* The thread of the setup is through (its messages are one more emitter's).
EndSetup ==
  /\ asking /\ asking' = FALSE
  /\ UNCHANGED <<stream, tail, step, input, hand, found, recorded, scrollback, setups>>

\* Under buffer_lock.
Newest(s) == SubSeq(s, IF Len(s) > MaxSize THEN Len(s) - MaxSize + 1 ELSE 1, Len(s))

Keep(e) ==
  /\ found[e] = 0
  /\ Advance(e, "request", "idle")
  /\ recorded' = recorded \o hand[e]
  /\ scrollback' = Newest(scrollback \o hand[e])
  /\ hand' = [hand EXCEPT ![e] = << >>]
  /\ UNCHANGED <<stream, tail, input, found, asking, setups>>

OutputRest == (\A e \in Emitters : step[e] = "idle") /\ UNCHANGED outputVars

OutputNext ==
  \/ EndSetup \/ OutputRest
  \/ \E e \in Emitters :
       \/ Cut(e) \/ Pass(e) \/ AskedBefore(e) \/ Ask(e) \/ BeginSetup(e) \/ Keep(e)
       \/ \E data \in BoundedSeq(Bytes, MaxBytes) \ {<< >>} : Take(e, data)

OutputSpec == OutputInit /\ [][OutputNext]_outputVars

-----------------------------------------------------------------------------
(* Properties.                                                             *)

\* The stream without its controls, told from the whole of it at once.
Covered(s) == UNION {i .. i + Len(Control) - 1 : i \in StartsAt(s)}
Plain(s) ==
  LET left == {i \in 1 .. Len(s) : i \notin Covered(s)}
      nth(n) == CHOOSE i \in left : Cardinality({j \in left : j <= i}) = n
  IN  [n \in 1 .. Cardinality(left) |-> s[nth(n)]]

\* With one emitter the filter is transparent: wherever the reads cut the
\* stream, the terminal gets it without the controls, in order, but for an end
\* that may still become a control; and the scrollback is the end of that.
FilterIsTransparent ==
  (\A e \in Emitters : step[e] = "idle") =>
    /\ recorded \o tail = Plain(stream)
    /\ scrollback = Newest(recorded)
    /\ \E n \in 0 .. Len(Control) - 1 : tail = SubSeq(Control, 1, n)
=============================================================================
