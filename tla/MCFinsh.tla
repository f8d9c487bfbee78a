------------------------------ MODULE MCFinsh -------------------------------
(***************************************************************************)
(* The shell with a console that has a driver and with one that is polled, *)
(* its listings of objects, the devices it is given, and the functions on  *)
(* which all this rests, one call of them for each initial state.          *)
(***************************************************************************)
EXTENDS Devices, Objects, Sequences

VARIABLES mode,     \* what is looked at
          call,     \* the arguments, where that is a function
          wire, key, cut, phase, done, login, shell

Letters(s) == {<<c>> : c \in s}
Arrow(c) == <<27, 91, c>>
Driver == INSTANCE Finsh WITH
  LongBits <- 16, FINSH_ARG_MAX <- 2, FINSH_CMD_SIZE <- 4, FINSH_HISTORY_LINES <- 2, FINSH_PASSWORD_MAX <- 2,
  Commands <- <<<<97>>, <<97, 97>>>>, Passwd <- <<97, 32>>, Polling <- FALSE,
  KeySet <- Letters({97, 32, 9, 8, 13}) \union {Arrow(c) : c \in {65, 66, 68}}
Polled == INSTANCE Finsh WITH
  LongBits <- 16, FINSH_ARG_MAX <- 2, FINSH_CMD_SIZE <- 3, FINSH_HISTORY_LINES <- 1, FINSH_PASSWORD_MAX <- 2,
  Commands <- <<<<97, 97>>>>, Passwd <- <<97>>, Polling <- TRUE,
  KeySet <- Letters({97, 9, 127, 10}) \union {Arrow(c) : c \in {67, 68}} \union {<<27, 97>>}

-----------------------------------------------------------------------------
Words(chars, n) == UNION {[1..k -> chars] : k \in 0..n}
Lines == Words({97, 32, 34, 92}, 6)
Copies == [dst : {0, 1, 4, 20}, src : {0, 2, 3, 4, 24}, n : {0, 1, 3, 4, 16, 18, 20}]
Strings == [s : Words({66, 98, 99}, 3), t : Words({66, 98}, 3), n : 0..4]
Directives ==
  [conv : {"d", "u", "x", "X"}, flags : SUBSET {"LEFT", "PLUS", "SPACE", "ZEROPAD", "SPECIAL"}, width : {-1000, 5, -7},
   precision : {-1000, 1, 4}, qualifier : {"", "h"}, arg : {0, 7, 1234, -1, 255, -32768}]
  \union [conv : {"s"}, flags : {{}, {"LEFT"}}, width : {-1000, 0, 5, -7}, precision : {-1000, 1, 4}, qualifier : {""},
          arg : {<<>>, <<"a", "b", "c">>}]
Alignments == [size : 0..9, alignment : {1, 2, 4, 8, 16, 32}, ptr : {4 * k : k \in 250..262}]

\* A line, or strings, in memory.
InMemory(s, size) == [i \in 0..(size - 1) |-> IF i < Len(s) THEN s[i + 1] ELSE 0]
TwoStrings(c) == [i \in 0..7 |-> IF i < 4 THEN InMemory(c.s, 4)[i] ELSE InMemory(c.t, 4)[i - 4]]

\* The interpreter runs the command that a line names, with the words of the line as arguments.
CommandsSplit ==
  mode = "line" => Driver!msh_exec(InMemory(call, 8), Len(call))
                     = [command |-> Driver!Editor!Command(call), arguments |-> Driver!Editor!Arguments(call)]

-----------------------------------------------------------------------------
finshVars == <<wire, key, cut, phase, done, login, shell>>
IsCall == \/ mode = "line" /\ call \in Lines
          \/ mode = "copy" /\ call \in Copies
          \/ mode = "string" /\ call \in Strings
          \/ mode = "print" /\ call \in Directives
          \/ mode = "align" /\ call \in Alignments
          \/ mode \in {"driver", "polled", "list", "device"} /\ call = <<>>
Init ==
  /\ IsCall
  /\ IF mode = "polled" THEN Polled!FinshInit ELSE Driver!FinshInit
  /\ mode \notin {"driver", "polled"} => phase = "login"
  /\ ObjectsInit /\ DevicesInit
Next ==
  /\ UNCHANGED <<mode, call>>
  /\ mode \notin {"driver", "polled"} => UNCHANGED finshVars
  /\ mode # "list" => UNCHANGED objVars
  /\ mode # "device" => UNCHANGED devVars
  /\ \/ mode = "driver" /\ Driver!FinshNext
     \/ mode = "polled" /\ Polled!FinshNext
     \/ mode = "list" /\ ObjectsNext
     \/ mode = "device" /\ DevicesNext
vars == <<mode, call, finshVars, objVars, devVars>>
Spec == Init /\ [][Next]_vars

\* The shell edits, recalls, completes and runs lines as the abstract editor does, whatever keys
\* arrive, whole or, when it polls the console, cut at any byte.
EditorSpec ==
  /\ mode = "driver" => Driver!Editor!Init
  /\ mode = "polled" => Polled!Editor!Init
  /\ [][/\ mode = "driver" => [Driver!Editor!Next]_(Driver!Editor!vars)
        /\ mode = "polled" => [Polled!Editor!Next]_(Polled!Editor!vars)]_vars
=============================================================================
