-------------------------------- MODULE Msh ---------------------------------
(***************************************************************************)
(* The command interpreter (msh.c): it finds the command that a line       *)
(* names, cuts the line into arguments where it stands, by writing NULs    *)
(* into it, and completes names.  A line is an array of characters; cmd,   *)
(* ptr and end are indices of it.                                          *)
(***************************************************************************)
EXTENDS Integers, Sequences, SequencesExt, KService

CONSTANTS FINSH_ARG_MAX,
          Commands    \* the names in the table of commands, in its order, without "__cmd_"

Blanks == {32, 9}
Others == (0..255) \ Blanks
\* the first of the characters "stops" from ptr on, or the end
First(m, ptr, end, stops) == Least({i \in ptr..end : i = end \/ m[i] \in stops})
Nul(m, cells) == [i \in DOMAIN m |-> IF i \in cells THEN NUL ELSE m[i]]
\* The C string at ptr; it ends with the array if no NUL does.
CString(m, ptr) ==
  LET after == {i \in DOMAIN m : i >= ptr /\ m[i] = NUL}
      end == IF after = {} THEN Cardinality(DOMAIN m) ELSE Least(after)
  IN  [i \in 1..(end - ptr) |-> m[ptr + i - 1]]

\* MUTANT: every quote closes the string
FirstQuote(m, ptr, end) == First(m, ptr, end, {34})
\* The quote that closes the string at ptr: one behind a backslash does not.
RECURSIVE EndOfString(_, _, _)
EndOfString(m, ptr, end) ==
  IF ptr >= end \/ m[ptr] = 34 THEN ptr
  ELSE EndOfString(m, IF m[ptr] = 92 /\ m[ptr + 1] = 34 THEN ptr + 2 ELSE ptr + 1, end)

\* <<line, argv>>, once the text from ptr on is cut as well
RECURSIVE msh_split(_, _, _, _)
msh_split(m, ptr, end, argv) ==
  LET word == First(m, ptr, end, Others)
      n == Nul(m, ptr..(word - 1))
      quoted == n[word] = 34
      stop == IF quoted THEN EndOfString(n, word + 1, end) ELSE First(n, word, end, Blanks)
      argv2 == Append(argv, IF quoted THEN word + 1 ELSE word)
  IN  IF ptr >= end THEN <<m, argv>>
      ELSE IF Len(argv) >= FINSH_ARG_MAX \/ word >= end THEN <<n, argv>>
      ELSE IF stop >= end THEN <<n, argv2>>
      ELSE IF quoted THEN msh_split(Nul(n, {stop}), stop + 1, end, argv2)
      ELSE msh_split(n, stop, end, argv2)

\* The number of the command whose name is the "size" characters at cmd, or 0.
msh_get_cmd(m, cmd, size) ==
  LET hits == {i \in DOMAIN Commands : Commands[i] = [j \in 1..size |-> m[cmd + j - 1]]}
  IN  IF hits = {} THEN 0 ELSE Least(hits)

\* What the command that runs is given, when there is one.
msh_exec(m, length) ==
  LET cmd == First(m, 0, length, Others)
      func == msh_get_cmd(m, cmd, First(m, cmd, length, Blanks) - cmd)
      cut == msh_split(m, cmd, length, <<>>)
  IN  IF cmd = length \/ func = 0 THEN [command |-> 0, arguments |-> <<>>]
      ELSE [command |-> func, arguments |-> [i \in DOMAIN cut[2] |-> CString(cut[1], cut[2][i])]]

-----------------------------------------------------------------------------
str_common(a, b) ==
  Least({i \in 0..Len(a) : i = Len(a) \/ i = Len(b) \/ a[i + 1] # b[i + 1]})
\* Completes the line, of which "prefix" is the string, from the names it begins.
msh_auto_complete(m, prefix) ==
  LET hits == SelectSeq(Commands, LAMBDA name : IsPrefix(prefix, name))
      name_ptr == Head(hits)
      min_length == FoldLeft(LAMBDA n, name : Smaller(n, str_common(name_ptr, name)), Len(name_ptr), hits)
  IN  IF prefix = <<>> \/ hits = <<>> THEN m
      ELSE [i \in DOMAIN m |-> IF i < min_length THEN name_ptr[i + 1] ELSE m[i]]
=============================================================================
