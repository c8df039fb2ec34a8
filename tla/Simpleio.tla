------------------------------ MODULE Simpleio ------------------------------
(***************************************************************************)
(* The console library, simpleio/simpleio.c: a window of the video memory  *)
(* and a cursor.  Its variables are global and nothing guards them, so     *)
(* that several threads of one program, or of programs that share memory,  *)
(* may be in the middle of a putchar.                                      *)
(*                                                                         *)
(* What a thread still has to print is in out[t], a sequence of            *)
(* characters.  putchar is a step for each access to the shared state,     *)
(* scrolling being one.  The serial port gets the same characters.         *)
(***************************************************************************)
EXTENDS Integers, Sequences, SequencesExt

CONSTANTS COLUMNS, LINES, ATTRIBUTE,
          Printers        \* the threads that share the console

ASSUME SimpleioAssumption == COLUMNS \in Nat \ {0} /\ LINES \in Nat \ {0}

VARIABLES
  video,                  \* the cells of the screen, row after row
  xpos, ypos,             \* the cursor
  window,                 \* top, bottom, left, right
  attr,
  out,                    \* what each thread has still to print
  stage                   \* how far its putchar has come

screenVars == <<video, xpos, ypos, window, attr, out, stage>>

Cells == 0 .. (COLUMNS * LINES - 1)
At(row, col) == row * COLUMNS + col
InWindow(row, col) ==
  /\ window.top <= row /\ row < window.bottom
  /\ window.left <= col /\ col < window.right

-----------------------------------------------------------------------------
(***************************************************************************)
(* printf: a format is a sequence of characters and conversions, and the   *)
(* arguments are numbers or strings.                                       *)
(***************************************************************************)
Lit(c)                 == [conv |-> "lit", char |-> c, zero |-> FALSE, width |-> 0]
Conv(conv, zero, width) == [conv |-> conv, char |-> "%", zero |-> zero, width |-> width]

Digit == <<"0", "1", "2", "3", "4", "5", "6", "7", "8", "9", "a", "b", "c", "d", "e", "f">>

\* itoa writes the digits from the last one on and then turns them round.
itoa(base, d) ==
  LET divisor == IF base = "x" THEN 16 ELSE 10
      ud == IF base = "d" /\ d < 0 THEN -d ELSE d
      digits[n \in 0 .. ud] ==
        IF n < divisor THEN <<Digit[n + 1]>>
        ELSE Append(digits[n \div divisor], Digit[(n % divisor) + 1])
  IN  (IF base = "d" /\ d < 0 THEN <<"-">> ELSE << >>) \o digits[ud]

Pad(f, s) == [i \in 1 .. (f.width - Len(s)) |-> IF f.zero THEN "0" ELSE " "] \o s

\* Every conversion takes an argument; c and unknown ones print it as it is.
Shown(f, arg) ==
  CASE f.conv \in {"d", "u", "x"} -> Pad(f, itoa(f.conv, arg))
    [] f.conv = "s"               -> arg
    [] OTHER                      -> <<arg>>

printf(format, args) ==
  FoldLeft(LAMBDA acc, f :
             IF f.conv = "lit" THEN [acc EXCEPT !.text = Append(@, f.char)]
             ELSE [text |-> acc.text \o Shown(f, Head(acc.args)), args |-> Tail(acc.args)],
           [text |-> << >>, args |-> args], format).text

-----------------------------------------------------------------------------
\* A window that does not fit on the screen is refused.  The cursor stays
\* where it is: cls moves it.
setWindow(t, h, l, w) ==
  window' = IF 0 <= t /\ 0 < h /\ t + h <= LINES /\ 0 <= l /\ 0 < w /\ l + w <= COLUMNS
            THEN [top |-> t, bottom |-> t + h, left |-> l, right |-> l + w]
            ELSE window

Blank == [char |-> " ", attr |-> attr]

cls ==
  /\ video' = [c \in Cells |-> IF InWindow(c \div COLUMNS, c % COLUMNS) THEN Blank ELSE video[c]]
  /\ ypos' = window.top
  /\ xpos' = window.left

\* A newline or return does not touch the cell under the cursor.
PutCell(t) ==
  LET c == Head(out[t])
      i == At(ypos, xpos)
  IN
  /\ out[t] # << >> /\ stage[t] = "char"
  /\ IF c \in {"\n", "\r"}
     THEN stage' = [stage EXCEPT ![t] = "newline"] /\ UNCHANGED video
     ELSE /\ stage' = [stage EXCEPT ![t] = "advance"]
          /\ video' = IF i \in Cells THEN [video EXCEPT ![i] = [char |-> c, attr |-> attr]]
                      ELSE video
  /\ UNCHANGED <<xpos, ypos, window, attr, out>>

Advance(t) ==
  /\ out[t] # << >> /\ stage[t] = "advance"
  /\ xpos' = xpos + 1
  /\ IF xpos + 1 < window.right
     THEN /\ stage' = [stage EXCEPT ![t] = "char"]
          /\ out' = [out EXCEPT ![t] = Tail(@)]
     ELSE stage' = [stage EXCEPT ![t] = "newline"] /\ UNCHANGED out
  /\ UNCHANGED <<video, ypos, window, attr>>

\* A slip: the last row keeps what it had.
ScrolledOnce ==
  [c \in Cells |->
     LET row == c \div COLUMNS IN
     IF InWindow(row, c % COLUMNS) /\ row < window.bottom - 1 THEN video[c + COLUMNS] ELSE video[c]]

Scrolled ==
  [c \in Cells |->
     LET row == c \div COLUMNS IN
     CASE ~InWindow(row, c % COLUMNS) -> video[c]
       [] row = window.bottom - 1     -> Blank
       [] OTHER                       -> video[c + COLUMNS]]

Newline(t) ==
  /\ out[t] # << >> /\ stage[t] = "newline"
  /\ xpos' = window.left
  /\ IF ypos + 1 >= window.bottom
     THEN ypos' = window.bottom - 1 /\ video' = Scrolled
     ELSE ypos' = ypos + 1 /\ UNCHANGED video
  /\ out' = [out EXCEPT ![t] = Tail(@)]
  /\ stage' = [stage EXCEPT ![t] = "char"]
  /\ UNCHANGED <<window, attr>>

putchar(t) == PutCell(t) \/ Advance(t) \/ Newline(t)

ScreenInit ==
  /\ video = [c \in Cells |-> [char |-> "?", attr |-> ATTRIBUTE]]
  /\ xpos = 0 /\ ypos = 0
  /\ window = [top |-> 0, bottom |-> LINES, left |-> 0, right |-> COLUMNS]
  /\ attr = ATTRIBUTE
  /\ out = [t \in Printers |-> << >>]
  /\ stage = [t \in Printers |-> "char"]

=============================================================================
