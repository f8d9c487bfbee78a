----------------------------- MODULE LineEditor -----------------------------
(***************************************************************************)
(* What the shell promises to whoever types: an edited line, a history of  *)
(* lines, completion of command names, and the execution of the line with  *)
(* its words as arguments, after a login.  A key sends one or more bytes;  *)
(* it acts as a whole, when its last byte arrives.  If the shell looks for *)
(* a byte in vain in the middle of a key ("cut"), the bytes that are left  *)
(* of the key are typed as characters.                                     *)
(***************************************************************************)
EXTENDS Integers, Sequences, SequencesExt

CONSTANTS Size,       \* a line that reaches this length is discarded
          Depth,      \* the lines of history that are kept
          Args,       \* the arguments that are passed at most
          Names,      \* the names of the commands, a sequence of strings
          Password, PasswordMax,
          Keys        \* the keys, as the sequences of bytes they send

TAB == 9
SPACE == 32
QUOTE == 34
BACKSLASH == 92
Blank(c) == c \in {SPACE, TAB}
FirstOf(S) == CHOOSE i \in S : \A j \in S : i <= j

VARIABLES wire,    \* the bytes of the current key that have not arrived
          key,     \* the key they belong to
          cut,     \* whether it was cut
          phase,   \* "login" or "shell"
          ed,      \* the editor: text, cursor, past (lines), sel (line recalled), stale, lost
          done     \* the command that runs in this step, and its arguments
Nothing == [command |-> 0, arguments |-> <<>>]

-----------------------------------------------------------------------------
\* The words of a line: what is between blanks, or between quotes that no backslash precedes.
RECURSIVE WordsOf(_)
WordsOf(s) ==
  LET starts == {i \in DOMAIN s : ~Blank(s[i])} IN
  IF starts = {} THEN <<>>
  ELSE LET w == SubSeq(s, FirstOf(starts), Len(s))
           quoted == w[1] = QUOTE
           ends == IF quoted THEN {i \in 2..Len(w) : w[i] = QUOTE /\ w[i - 1] # BACKSLASH}
                   ELSE {i \in DOMAIN w : Blank(w[i])}
           end == IF ends = {} THEN Len(w) + 1 ELSE FirstOf(ends)
       IN  <<SubSeq(w, IF quoted THEN 2 ELSE 1, end - 1)>> \o WordsOf(SubSeq(w, end + 1, Len(w)))

\* The command that a line names (0: none) and its first arguments.
Unquoted(s) == LET b == {i \in DOMAIN s : ~Blank(s[i])}
                   t == SubSeq(s, FirstOf(b), Len(s))
                   e == {i \in DOMAIN t : Blank(t[i])}
               IN  IF b = {} THEN <<>> ELSE IF e = {} THEN t ELSE SubSeq(t, 1, FirstOf(e) - 1)
Named(s) == {i \in DOMAIN Names : Names[i] = Unquoted(s)}
Command(s) == IF Named(s) = {} THEN 0 ELSE FirstOf(Named(s))
Arguments(s) == IF Command(s) = 0 THEN <<>> ELSE SubSeq(WordsOf(s), 1, IF Len(WordsOf(s)) > Args THEN Args ELSE Len(WordsOf(s)))

\* A line is completed to the longest text that begins all the names it begins.
Completed(s) ==
  LET all == {i \in DOMAIN Names : IsPrefix(s, Names[i])}
      some == Names[CHOOSE i \in all : TRUE]
      common == {n \in 0..Len(some) : \A i \in all : IsPrefix(SubSeq(some, 1, n), Names[i])}
  IN  IF s = <<>> \/ all = {} THEN s ELSE SubSeq(some, 1, CHOOSE n \in common : \A m \in common : m <= n)

-----------------------------------------------------------------------------
\* One operation of the editor takes e to f.
Insert(e, f, c) ==
  LET text == SubSeq(e.text, 1, e.cursor) \o <<c>> \o SubSeq(e.text, e.cursor + 1, Len(e.text))
  IN  f = IF Len(text) < Size THEN [e EXCEPT !.text = text, !.cursor = @ + 1]
          ELSE [e EXCEPT !.text = <<>>, !.cursor = 0, !.stale = TRUE]
Delete(e, f) ==
  f = IF e.cursor = 0 THEN e
      ELSE [e EXCEPT !.text = SubSeq(@, 1, e.cursor - 1) \o SubSeq(@, e.cursor + 1, Len(@)), !.cursor = @ - 1]
Left(e, f) == f = IF e.cursor > 0 THEN [e EXCEPT !.cursor = @ - 1] ELSE e
Right(e, f) == f = IF e.cursor < Len(e.text) THEN [e EXCEPT !.cursor = @ + 1] ELSE e
Recall(e, n) == [e EXCEPT !.sel = n, !.text = e.past[n + 1], !.cursor = Len(e.past[n + 1]), !.stale = FALSE]
Up(e, f) == f = IF e.sel > 0 THEN Recall(e, e.sel - 1) ELSE e
Down(e, f) == LET last == Len(e.past) - 1
              IN  f = IF last < 0 THEN e ELSE Recall(e, IF e.sel < last THEN e.sel + 1 ELSE last)
\* After a line was discarded its text is still there: a completion finds some of it, or reads
\* past the end of it, and nothing is promised from then on.
Complete(e, f) ==
  \/ ~e.stale /\ f = [e EXCEPT !.text = Completed(@), !.cursor = Len(Completed(e.text))]
  \/ e.stale /\ f.lost
  \/ /\ e.stale /\ Len(f.text) < Size
     /\ f = [e EXCEPT !.text = f.text, !.cursor = Len(f.text)]
\* The line is remembered unless it is empty or the same as the last one.
Remember(e) ==
  IF e.text = <<>> \/ (e.past # <<>> /\ Last(e.past) = e.text /\ ~e.stale) THEN e.past
  ELSE (IF Len(e.past) < Depth THEN e.past ELSE Tail(e.past)) \o <<e.text>>
Run(e, f) ==
  LET past == Remember(e)
  IN  f = [e EXCEPT !.past = past, !.sel = Len(past), !.text = <<>>, !.cursor = 0, !.stale = FALSE]
\* The last argument of a line typed over a discarded one may have a tail.
Ran(e) ==
  /\ done'.command = Command(e.text)
  /\ IF e.stale /\ Arguments(e.text) # <<>>
     THEN /\ Front(done'.arguments) = Front(Arguments(e.text))
          /\ IsPrefix(Last(Arguments(e.text)), Last(done'.arguments))
     ELSE done'.arguments = Arguments(e.text)

Typed(b) ==
  \/ b \in {0, 255} /\ UNCHANGED ed /\ done' = Nothing
  \/ b = TAB /\ Complete(ed, ed') /\ done' = Nothing
  \/ b \in {8, 127} /\ Delete(ed, ed') /\ done' = Nothing
  \/ b \in {10, 13} /\ Run(ed, ed') /\ Ran(ed)
  \/ b \notin {0, 255, TAB, 8, 127, 10, 13} /\ Insert(ed, ed', b) /\ done' = Nothing
Pressed(k) ==
  CASE Len(k) = 3 /\ k[3] = 65 -> Up(ed, ed') /\ done' = Nothing
    [] Len(k) = 3 /\ k[3] = 66 -> Down(ed, ed') /\ done' = Nothing
    [] Len(k) = 3 /\ k[3] = 67 -> Right(ed, ed') /\ done' = Nothing
    [] Len(k) = 3 /\ k[3] = 68 -> Left(ed, ed') /\ done' = Nothing
    [] OTHER -> Typed(Last(k))

\* At login every printable byte counts, up to the longest password, wherever it comes from.
LoginTyped(b) ==
  /\ done' = Nothing
  /\ \/ /\ b \in {10, 13} /\ ed' = [ed EXCEPT !.text = <<>>]
        /\ phase' = IF ed.text = Password THEN "shell" ELSE "login"
     \/ /\ b \notin {10, 13} /\ UNCHANGED phase
        /\ ed' = [ed EXCEPT !.text = IF b \in 32..126 /\ Len(@) < PasswordMax THEN Append(@, b)
                                     ELSE IF b = 8 /\ @ # <<>> THEN Front(@) ELSE @]

\* The next byte of key k arrives, and "rest" is still to come.
Sends(k) ==
  LET rest == IF wire = <<>> THEN Tail(k) ELSE Tail(wire)
      b == k[Len(k) - Len(rest)]
  IN  /\ wire' = rest /\ key' = (IF rest = <<>> THEN <<>> ELSE k) /\ cut' = (cut /\ rest # <<>>)
      /\ CASE phase = "login" -> LoginTyped(b)
           [] phase = "shell" /\ cut -> UNCHANGED phase /\ Typed(b)
           [] phase = "shell" /\ ~cut /\ rest = <<>> -> UNCHANGED phase /\ Pressed(k)
           [] OTHER -> UNCHANGED <<phase, ed>> /\ done' = Nothing
NoByte == cut' = (wire # <<>>) /\ UNCHANGED <<wire, key, phase, ed>> /\ done' = Nothing

vars == <<wire, key, cut, phase, ed, done>>
Init ==
  /\ wire = <<>> /\ key = <<>> /\ cut = FALSE /\ phase \in {"login", "shell"}
  /\ ed = [text |-> <<>>, cursor |-> 0, past |-> <<>>, sel |-> 0, stale |-> FALSE, lost |-> FALSE]
  /\ done = Nothing
Next == NoByte \/ \E k \in (IF wire = <<>> THEN Keys ELSE {key}) : Sends(k)
Spec == Init /\ [][~ed.lost /\ Next]_vars
=============================================================================
