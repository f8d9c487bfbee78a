------------------------------- MODULE Finsh --------------------------------
(***************************************************************************)
(* The shell thread (shell.c): it reads the console byte by byte, asks for *)
(* the password, decodes the keys that send several bytes, edits the line, *)
(* keeps the history and hands lines to the interpreter (module Msh).  The *)
(* bytes come from a device driver, which lets the thread wait, or from    *)
(* rt_hw_console_getchar, which returns 0xFF when there is none.           *)
(* Module LineEditor says what the shell promises.                         *)
(***************************************************************************)
EXTENDS Msh

CONSTANTS FINSH_CMD_SIZE, FINSH_HISTORY_LINES, FINSH_PASSWORD_MAX,
          Passwd,    \* the password that is set
          KeySet,    \* the keys that are typed, as the sequences of bytes they send
          Polling    \* whether there is no device driver, and the console is polled

VARIABLES wire, key, cut, phase, done,   \* as in LineEditor
          login,    \* password and cur_pos of finsh_wait_auth
          shell     \* the structure finsh_shell, and whether memory around it was read

Zeroes(n) == [i \in 0..(n - 1) |-> NUL]
Nothing == [command |-> 0, arguments |-> <<>>]
finshVars == <<wire, key, cut, phase, done, login, shell>>

finsh_system_init ==
  [stat |-> "WAIT_NORMAL", line |-> Zeroes(FINSH_CMD_SIZE), line_position |-> 0, line_curpos |-> 0,
   cmd_history |-> [i \in 0..(FINSH_HISTORY_LINES - 1) |-> Zeroes(FINSH_CMD_SIZE)],
   current_history |-> 0, history_count |-> 0, lost |-> FALSE]
FinshInit ==
  /\ wire = <<>> /\ key = <<>> /\ cut = FALSE /\ phase \in {"login", "shell"}
  /\ done = Nothing
  /\ login = [password |-> Zeroes(FINSH_PASSWORD_MAX), cur_pos |-> 0]
  /\ shell = finsh_system_init

-----------------------------------------------------------------------------
\* finsh_wait_auth
Authentic == \A i \in 0..(FINSH_PASSWORD_MAX - 1) :
  login.password[i] = IF i < Len(Passwd) THEN Passwd[i + 1] ELSE NUL
LoginChar(ch) ==
  /\ ch \in 32..126 /\ login.cur_pos < FINSH_PASSWORD_MAX
  /\ login' = [password |-> [login.password EXCEPT ![login.cur_pos] = ch], cur_pos |-> login.cur_pos + 1]
  /\ UNCHANGED phase
LoginBackspace(ch) ==
  /\ ch = 8 /\ login.cur_pos > 0
  /\ login' = [password |-> [login.password EXCEPT ![login.cur_pos - 1] = NUL], cur_pos |-> login.cur_pos - 1]
  /\ UNCHANGED phase
LoginEnter(ch) ==
  /\ ch \in {13, 10}
  /\ login' = [password |-> Zeroes(FINSH_PASSWORD_MAX), cur_pos |-> 0]
  /\ phase' = IF Authentic THEN "shell" ELSE "login"
LoginIgnored(ch) ==
  /\ ~(ch \in 32..126 /\ login.cur_pos < FINSH_PASSWORD_MAX)
  /\ ~(ch = 8 /\ login.cur_pos > 0) /\ ch \notin {13, 10}
  /\ UNCHANGED <<login, phase>>
Login(ch) == /\ phase = "login" /\ UNCHANGED shell /\ done' = Nothing
             /\ LoginChar(ch) \/ LoginBackspace(ch) \/ LoginEnter(ch) \/ LoginIgnored(ch)

-----------------------------------------------------------------------------
\* The loop of finsh_thread_entry: one action for each way through it.
IsFinal(ch) == ch \in 65..68
EscKey(ch) == ch = 27 /\ shell' = [shell EXCEPT !.stat = "WAIT_SPEC_KEY"] /\ done' = Nothing
SpecKey(ch) == /\ ch = 91 /\ shell.stat = "WAIT_SPEC_KEY"
               /\ shell' = [shell EXCEPT !.stat = "WAIT_FUNC_KEY"] /\ done' = Nothing

ShowHistory(sh, n) ==
  LET line == sh.cmd_history[n]
  IN  [sh EXCEPT !.current_history = n, !.line = line,
                 !.line_position = rt_strlen(line, 0), !.line_curpos = rt_strlen(line, 0)]
FuncKey(ch) ==
  LET sh == [shell EXCEPT !.stat = "WAIT_NORMAL"] IN
  /\ shell.stat = "WAIT_FUNC_KEY" /\ done' = Nothing
  /\ \/ /\ ch = 65
        /\ shell' = IF sh.current_history > 0 THEN ShowHistory(sh, sh.current_history - 1) ELSE sh
     \/ /\ ch = 66
        /\ shell' = IF sh.current_history < sh.history_count - 1 THEN ShowHistory(sh, sh.current_history + 1)
                    ELSE IF sh.history_count # 0 THEN ShowHistory(sh, sh.history_count - 1) ELSE sh
     \/ /\ ch = 68
        /\ shell' = [sh EXCEPT !.line_curpos = IF @ > 0 THEN @ - 1 ELSE @]
     \/ /\ ch = 67
        /\ shell' = [sh EXCEPT !.line_curpos = IF @ < sh.line_position THEN @ + 1 ELSE @]

\* Any other byte ends a sequence that was begun, and is then taken for itself.
Plain(ch) == ch # 27 /\ ~(shell.stat = "WAIT_SPEC_KEY" /\ ch = 91) /\ ~(shell.stat = "WAIT_FUNC_KEY" /\ IsFinal(ch))
Normal == [shell EXCEPT !.stat = "WAIT_NORMAL"]

NullKey(ch) == Plain(ch) /\ ch \in {NUL, 255} /\ shell' = Normal /\ done' = Nothing

\* Without a NUL in the line, before or after it is completed, rt_strlen reads past it.
TabKey(ch) ==
  LET line == msh_auto_complete(shell.line, CString(shell.line, 0))
      ends == NUL \in {line[i] : i \in DOMAIN line}
  IN  /\ Plain(ch) /\ ch = 9 /\ done' = Nothing
      /\ shell' = IF ends THEN [Normal EXCEPT !.line = line, !.line_position = rt_strlen(line, 0),
                                              !.line_curpos = rt_strlen(line, 0)]
                  ELSE [Normal EXCEPT !.lost = TRUE]

Backspace(ch) ==
  LET pos == shell.line_position - 1
      cur == shell.line_curpos - 1
      moved == IF pos > cur THEN rt_memmove(shell.line, cur, cur + 1, pos - cur) ELSE shell.line
  IN  /\ Plain(ch) /\ ch \in {127, 8} /\ done' = Nothing
      /\ shell' = IF shell.line_curpos = 0 THEN Normal
                  ELSE [Normal EXCEPT !.line_position = pos, !.line_curpos = cur, !.line = [moved EXCEPT ![pos] = NUL]]

\* MUTANT: the history forgets where its end is
push_without_rewind(sh) ==
  LET n == sh.history_count
      entry == [i \in DOMAIN sh.line |-> IF i < sh.line_position THEN sh.line[i] ELSE NUL]
      same == n > 0 /\ sh.cmd_history[n - 1] = sh.line
  IN  IF sh.line_position = 0 \/ same THEN sh
      ELSE IF n < FINSH_HISTORY_LINES
           THEN [sh EXCEPT !.cmd_history[n] = entry, !.history_count = n + 1, !.current_history = n + 1]
           ELSE [sh EXCEPT !.cmd_history = [i \in DOMAIN @ |-> IF i = n - 1 THEN entry ELSE @[i + 1]]]
shell_push_history(sh) ==
  LET n == sh.history_count
      entry == [i \in DOMAIN sh.line |-> IF i < sh.line_position THEN sh.line[i] ELSE NUL]
      same == n > 0 /\ sh.cmd_history[n - 1] = sh.line
      pushed == IF sh.line_position = 0 \/ same THEN sh
                ELSE IF n < FINSH_HISTORY_LINES
                     THEN [sh EXCEPT !.cmd_history[n] = entry, !.history_count = n + 1]
                     ELSE [sh EXCEPT !.cmd_history = [i \in DOMAIN @ |-> IF i = n - 1 THEN entry ELSE @[i + 1]]]
  IN  [pushed EXCEPT !.current_history = pushed.history_count]

Enter(ch) ==
  /\ Plain(ch) /\ ch \in {13, 10}
  /\ done' = msh_exec(shell.line, shell.line_position)
  /\ shell' = [shell_push_history(Normal) EXCEPT !.line = Zeroes(FINSH_CMD_SIZE), !.line_position = 0, !.line_curpos = 0]

\* The line grows at the cursor; at FINSH_CMD_SIZE it counts as empty, but is not cleared.
NormalChar(ch) ==
  LET position == IF shell.line_position >= FINSH_CMD_SIZE THEN 0 ELSE shell.line_position
      cur == shell.line_curpos
      line == IF cur < position
              THEN [rt_memmove(shell.line, cur + 1, cur, position - cur) EXCEPT ![cur] = ch]
              ELSE [shell.line EXCEPT ![position] = ch]
      large == position + 1 >= FINSH_CMD_SIZE
  IN  /\ Plain(ch) /\ ch \notin {NUL, 255, 9, 127, 8, 13, 10} /\ done' = Nothing
      /\ shell' = [Normal EXCEPT !.line = line, !.line_position = IF large THEN 0 ELSE position + 1,
                                 !.line_curpos = IF large THEN 0 ELSE cur + 1]

finsh_thread_entry(ch) ==
  /\ phase = "shell" /\ UNCHANGED <<login, phase>>
  /\ \/ EscKey(ch) \/ SpecKey(ch) \/ FuncKey(ch) \/ NullKey(ch) \/ TabKey(ch)
     \/ Backspace(ch) \/ Enter(ch) \/ NormalChar(ch)

-----------------------------------------------------------------------------
\* finsh_getchar: the next byte of a key, or none.
Received(k) ==
  LET rest == IF wire = <<>> THEN Tail(k) ELSE Tail(wire)
      ch == k[Len(k) - Len(rest)]
  IN  /\ wire' = rest /\ key' = (IF rest = <<>> THEN <<>> ELSE k) /\ cut' = (cut /\ rest # <<>>)
      /\ Login(ch) \/ finsh_thread_entry(ch)
Polled == /\ Polling /\ cut' = (wire # <<>>) /\ UNCHANGED <<wire, key>>
          /\ Login(255) \/ finsh_thread_entry(255)

FinshNext == /\ ~shell.lost
             /\ Polled \/ \E k \in (IF wire = <<>> THEN KeySet ELSE {key}) : Received(k)
FinshSpec == FinshInit /\ [][FinshNext]_finshVars

-----------------------------------------------------------------------------
\* The line up to line_position is the text; where memory was lost nothing is promised.
History == [i \in 1..shell.history_count |-> CString(shell.cmd_history[i - 1], 0)]
TypedSoFar == [i \in 1..login.cur_pos |-> login.password[i - 1]]
\* A discarded line has left no NUL at the end of the array.
Stale == shell.line[FINSH_CMD_SIZE - 1] # NUL
Editor == INSTANCE LineEditor WITH
  Size <- FINSH_CMD_SIZE, Depth <- FINSH_HISTORY_LINES, Args <- FINSH_ARG_MAX, Names <- Commands,
  Password <- Passwd, PasswordMax <- FINSH_PASSWORD_MAX, Keys <- KeySet,
  ed <- [text |-> IF phase = "login" THEN TypedSoFar
                  ELSE [i \in 1..shell.line_position |-> shell.line[i - 1]],
         cursor |-> shell.line_curpos, past |-> History, sel |-> shell.current_history,
         stale |-> Stale, lost |-> shell.lost]
=============================================================================
