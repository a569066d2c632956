------------------------------ MODULE Console ------------------------------
(***************************************************************************)
(* The screen of drivers/screen.c, drawn on by the write() calls of        *)
(* programs, by the echo of the keyboard and by a panic; and printf() of   *)
(* libc/stdio.c, which makes a program's output a sequence of write()s     *)
(* between which other programs write and keys arrive.                     *)
(*                                                                         *)
(* All interrupt gates mask interrupts, so one write() and one key are one *)
(* step each. Characters are strings of one character; colours are left    *)
(* out. Which process runs is left open (Scheduler), and so is what the    *)
(* reader does with its line (Terminal): the buffer is here for what the   *)
(* editing keys do with it and with the screen.                            *)
(***************************************************************************)
EXTENDS Integers, Sequences, SequencesExt

CONSTANTS
    W, H,       \* columns and rows (80 and 25)
    CursorMod,  \* values of the cursor registers (2^16)
    LenMod,     \* values of buffer.length (2^8)
    Chars,      \* characters
    Procs,
    Calls,      \* Calls[p]: the format and the arguments of a printf() of p
    Keys,       \* printable keys
    MaxKeys,    \* bound: keys typed
    Panic       \* the message of a panic, split as kpanic() prints it

ASSUME ConsoleAssumption ==
    /\ W \in Nat \ {0} /\ H \in Nat \ {0} /\ MaxKeys \in Nat
    /\ LenMod \in Nat \ {0, 1} /\ LenMod - 1 <= W * (H - 1)
    /\ CursorMod \in Nat /\ W * H < CursorMod

ASSUME CharsAssumption ==
    Keys \cup {" ", "\n", "NUL"} \subseteq Chars /\ Panic \in Seq(Chars) \X Seq(Chars)

VARIABLES
    scr,        \* video memory and the cursor registers
    buffer,     \* inbuffer: the bytes below buffer.length
    readers,    \* the queue of processes blocked in a read of the terminal
    woken,      \* those that were unblocked and have not run on yet
    call,       \* per process, its printf(): none, or format and arguments
    todo,       \* the write()s its printf() has still to make
    said,       \* what it has written
    halted,     \* kpanic() was called
    keys,       \* keys typed so far
    torn,       \* the screen was cleared under the keys in the buffer
    roll,       \* all that was ever shown, as on a roll of paper W wide
    alone       \* the line in the buffer is not interrupted by other output

consoleVars == <<scr, buffer, readers, woken, call, todo, said, halted, keys, torn, roll, alone>>

Cells == 0..(W * H - 1)
Blank == " "
None == [fmt |-> <<>>, args |-> <<>>]

----------------------------------------------------------------------------
(* screen.c, as functions of the screen *)

\* setpixel(): a cursor behind the screen's memory marks no cell.
SetPixel(s, c) == [s EXCEPT !.cell = [i \in Cells |-> IF i = s.cur THEN c ELSE s.cell[i]]]

\* setcursor(): the two registers hold 16 bits.
SetCursor(s, n) == [s EXCEPT !.cur = n % CursorMod]

\* clearscreen()
Cleared == [cell |-> [i \in Cells |-> Blank], cur |-> 0]

Scroll_Forgets(s) == SetCursor(Cleared, s.cur - W)

\* scroll(): all rows move up by one and the cursor with them.
Scroll(s) ==
    SetCursor([s EXCEPT !.cell = [i \in Cells |-> IF i < W * (H - 1) THEN s.cell[i + W] ELSE Blank]],
              s.cur - W)

\* The test behind every move of the cursor.
Scrolled(s) == IF s.cur >= W * H THEN Scroll(s) ELSE s

Advance(s) == Scrolled(SetCursor(s, s.cur + 1))
NewLine(s) == Scrolled(SetCursor(s, s.cur + (W - (s.cur % W))))

PutChar(s, c) == IF c = "\n" THEN NewLine(s) ELSE Advance(SetPixel(s, c))

\* print()
PrintText(s, text) ==
    LET shown[n \in 0..Len(text)] == IF n = 0 THEN s ELSE PutChar(shown[n - 1], text[n])
    IN  shown[Len(text)]

\* println()
PrintLine(s, text) == PrintText(IF s.cur % W # 0 THEN NewLine(s) ELSE s, text)

----------------------------------------------------------------------------
(* printf() *)

\* The digit of 4 bits, as the three branches of 'u', 'x' and 'X' compute it.
Digit(d, conv) ==
    IF d < 10 THEN <<"0", "1", "2", "3", "4", "5", "6", "7", "8", "9">>[d + 1]
    ELSE IF conv = "X" THEN <<"A", "B", "C", "D", "E", "F">>[d - 9]
    ELSE <<"a", "b", "c", "d", "e", "f">>[d - 9]

Skipped_All(s, step, most) ==
    CHOOSE n \in 0..(most + 1) : /\ \A m \in 1..(n * step) : s[m] = "0"
                                 /\ n = most + 1 \/ \E m \in (n * step + 1)..((n + 1) * step) : s[m] # "0"

\* How many groups of `step' leading zeros the loop behind part skips, at most
\* `most' of them.
Skipped(s, step, most) ==
    CHOOSE n \in 0..most : /\ \A m \in 1..(n * step) : s[m] = "0"
                           /\ n = most \/ \E m \in (n * step + 1)..((n + 1) * step) : s[m] # "0"

Decimal(v) ==
    LET all == [j \in 1..10 |-> Digit((v \div 10^(10 - j)) % 10, "u")]
    IN  SubSeq(all, Skipped(all, 1, 9) + 1, 10)

Hexadecimal(v, conv) ==
    LET all == [j \in 1..8 |-> Digit((v \div 16^(8 - j)) % 16, conv)]
    IN  SubSeq(all, 2 * Skipped(all, 2, 3) + 1, 8)

Takes(conv) == conv \in {"u", "x", "X", "c", "s"}

\* The switch on the character behind '%': what it writes.
Conversion(conv, arg) ==
    CASE conv = "%"          -> <<<<"%">>>>
      [] conv = "u"          -> <<Decimal(arg)>>
      [] conv \in {"x", "X"} -> <<<<"0", "x">>, Hexadecimal(arg, conv)>>
      [] conv = "c"          -> <<<<arg>>>>
      [] conv = "s"          -> <<arg>>
      [] OTHER               -> <<<<"%">>, <<conv>>>>

\* The loop over the format: the text since part is written before each '%'
\* and at the end, the conversions in between.
Writes(c) ==
    LET n == Len(c.fmt)
        from[i, part \in 1..(n + 1), a \in 1..(Len(c.args) + 1)] ==
            IF i > n THEN <<SubSeq(c.fmt, part, n)>>
            ELSE IF c.fmt[i] # "%" THEN from[i + 1, part, a]
            ELSE LET conv == c.fmt[i + 1] IN
                 <<SubSeq(c.fmt, part, i - 1)>>
                 \o Conversion(conv, IF Takes(conv) THEN c.args[a] ELSE 0)
                 \o from[i + 2, i + 2, IF Takes(conv) THEN a + 1 ELSE a]
    IN  from[1, 1, 1]

\* The formats and arguments are such that printf() writes characters.
ASSUME TextsAssumption == \A p \in Procs : \A c \in Calls[p] : Writes(c) \in Seq(Seq(Chars))

----------------------------------------------------------------------------
(* The roll of paper *)

\* What a text adds to the roll: a newline fills the row.
Inked(r, c) == IF c = "\n" THEN r \o [i \in 1..(W - (Len(r) % W)) |-> Blank] ELSE Append(r, c)
Fill(r, text) ==
    LET filled[n \in 0..Len(text)] == IF n = 0 THEN r ELSE Inked(filled[n - 1], text[n])
    IN  filled[Len(text)]
Margin(r) == IF Len(r) % W # 0 THEN Fill(r, <<"\n">>) ELSE r

----------------------------------------------------------------------------

\* After kernel(): the screen is cleared and programs start.
ConsoleInit ==
    /\ scr = Cleared
    /\ buffer = <<>> /\ readers = <<>> /\ woken = {}
    /\ call = [p \in Procs |-> None]
    /\ todo = [p \in Procs |-> <<>>]
    /\ said = [p \in Procs |-> <<>>]
    /\ halted = FALSE /\ keys = 0
    /\ torn = FALSE
    /\ roll = <<>> /\ alone = TRUE

Running(p) == ~halted /\ p \notin woken \cup Range(readers)

\* printf() up to its first write().
Printf(p, c) ==
    /\ Running(p) /\ call[p] = None
    /\ call' = [call EXCEPT ![p] = c]
    /\ todo' = [todo EXCEPT ![p] = Writes(c)]
    /\ UNCHANGED <<scr, buffer, readers, woken, said, halted, keys, torn, roll, alone>>

\* write() of the terminal: dev_write() calls print(), whatever the count.
Write(p) ==
    /\ Running(p) /\ todo[p] # <<>>
    /\ scr' = PrintText(scr, Head(todo[p]))
    /\ said' = [said EXCEPT ![p] = @ \o Head(todo[p])]
    /\ todo' = [todo EXCEPT ![p] = Tail(@)]
    /\ roll' = Fill(roll, Head(todo[p]))
    /\ alone' = (alone /\ (buffer = <<>> \/ Head(todo[p]) = <<>>))
    /\ UNCHANGED <<buffer, readers, woken, call, halted, keys, torn>>

\* clear(), a system call no library function makes.
Clear(p) ==
    /\ Running(p) /\ todo[p] = <<>>
    /\ scr' = Cleared
    /\ roll' = <<>>
    /\ torn' = (buffer # <<>>)
    /\ alone' = (buffer = <<>>)
    /\ UNCHANGED <<buffer, readers, woken, call, todo, said, halted, keys>>

\* read() of the terminal: the caller is queued and blocked ...
Read(p) ==
    /\ Running(p) /\ todo[p] = <<>>
    /\ readers' = Append(readers, p)
    /\ UNCHANGED <<scr, buffer, woken, call, todo, said, halted, keys, torn, roll, alone>>

\* ... and, once woken and run, takes the buffer.
Deliver(p) ==
    /\ ~halted /\ p \in woken
    /\ woken' = woken \ {p}
    /\ buffer' = <<>>
    /\ alone' = TRUE
    /\ UNCHANGED <<scr, readers, call, todo, said, halted, keys, torn, roll>>

Typed == ~halted /\ keys < MaxKeys /\ keys' = keys + 1

Put(c) == IF Len(buffer) + 1 = LenMod THEN <<>> ELSE Append(buffer, c)

\* keybuffer(), default case.
Key(c) ==
    /\ Typed
    /\ buffer' = Put(c)
    /\ scr' = Advance(SetPixel(scr, c))
    /\ roll' = Append(roll, c)
    /\ alone' = (alone \/ buffer' = <<>>)
    /\ UNCHANGED <<readers, woken, call, todo, said, halted, torn>>

Erased_InPlace(s) == SetCursor(SetPixel(s, Blank), s.cur - 1)

\* The cursor goes back and the cell it is then on is blanked.
Erased(s) == SetPixel(SetCursor(s, s.cur - 1), Blank)

\* keybuffer(), backspace.
Backspace ==
    /\ Typed
    /\ buffer # <<>>
    /\ buffer' = Front(buffer)
    /\ scr' = Erased(scr)
    /\ roll' = IF roll = <<>> THEN roll ELSE Front(roll)
    /\ alone' = (alone \/ buffer' = <<>>)
    /\ UNCHANGED <<readers, woken, call, todo, said, halted, torn>>

\* keybuffer(), escape.
Escape ==
    /\ Typed
    /\ buffer' = <<>>
    /\ scr' = Cleared
    /\ roll' = <<>> /\ alone' = TRUE /\ torn' = FALSE
    /\ UNCHANGED <<readers, woken, call, todo, said, halted>>

\* keybuffer(), newline: complete_buffer(), which does nothing when nobody
\* waits.
Enter ==
    /\ Typed
    /\ readers # <<>>
    /\ buffer' = Put("NUL")
    /\ woken' = woken \cup {Head(readers)}
    /\ readers' = Tail(readers)
    /\ scr' = NewLine(scr)
    /\ roll' = Fill(roll, <<"\n">>)
    /\ alone' = (buffer' = <<>>)
    /\ UNCHANGED <<call, todo, said, halted, torn>>

\* kpanic(), for any of the reasons the other modules have; pmalloc() clears the
\* screen before it reports that it is out of memory.
KPanic ==
    /\ ~halted
    /\ halted' = TRUE
    /\ \E clears \in BOOLEAN :
          LET s == IF clears THEN Cleared ELSE scr
              r == IF clears THEN <<>> ELSE roll
          IN  /\ scr' = PrintLine(PrintLine(s, Panic[1]), Panic[2])
              /\ roll' = Fill(Margin(Fill(Margin(r), Panic[1])), Panic[2])
              /\ torn' = IF clears THEN buffer # <<>> ELSE torn
    /\ UNCHANGED <<buffer, readers, woken, call, todo, said, keys, alone>>

ConsoleHalted == halted /\ UNCHANGED consoleVars

ConsoleNext ==
    \/ \E p \in Procs : \/ \E c \in Calls[p] : Printf(p, c)
                        \/ Write(p) \/ Clear(p) \/ Read(p) \/ Deliver(p)
    \/ \E c \in Keys : Key(c)
    \/ Backspace \/ Escape \/ Enter
    \/ KPanic \/ ConsoleHalted

ConsoleSpec == ConsoleInit /\ [][ConsoleNext]_consoleVars

----------------------------------------------------------------------------
(* Properties *)

\* The screen shows the end of the roll: whatever programs, keys and panics
\* write, in whatever order, the rows up to the cursor are the last ones written,
\* none is lost or moved except off the top, and behind the cursor all is blank.
\* (A program that clears the screen under a half typed line tears it: the keys
\* still in the buffer can be erased, and the cursor then goes below 0.)
ShowsEnd ==
    ~torn =>
        /\ scr.cur \in Cells /\ scr.cur <= Len(roll) /\ (Len(roll) - scr.cur) % W = 0
        /\ scr.cell = [i \in Cells |-> IF i < scr.cur THEN roll[Len(roll) - scr.cur + i + 1] ELSE Blank]
        /\ Len(buffer) <= scr.cur

\* As long as nobody else writes, the line being typed stands in front of the
\* cursor exactly as it is in the buffer, backspaces and scrolling included: what
\* the reader will get is what the typist sees.
EchoShown ==
    ~torn /\ alone /\ ~halted =>
        \A n \in 1..Len(buffer) : scr.cell[scr.cur - Len(buffer) + n - 1] = buffer[n]

\* The numeral of v without leading zeros, by repeated division.
Numeral(base, conv) ==
    LET f[v \in Nat] == IF v < base THEN <<Digit(v, conv)>>
                        ELSE Append(f[v \div base], Digit(v % base, conv))
    IN  f

\* What a conversion is to show; hexadecimal digits come in pairs.
Shown(conv, arg) ==
    CASE conv = "u" -> Numeral(10, conv)[arg]
      [] conv \in {"x", "X"} ->
            LET d == Numeral(16, conv)[arg]
            IN  <<"0", "x">> \o (IF Len(d) % 2 = 0 THEN <<>> ELSE <<"0">>) \o d
      [] conv = "c" -> <<arg>>
      [] conv = "s" -> arg
      [] conv = "%" -> <<"%">>
      [] OTHER -> <<"%", conv>>

\* What a call of printf() is to show, from the left to the right.
Meaning(c) ==
    LET f[i \in 1..(Len(c.fmt) + 1), a \in 1..(Len(c.args) + 1)] ==
            IF i > Len(c.fmt) THEN <<>>
            ELSE IF c.fmt[i] # "%" THEN <<c.fmt[i]>> \o f[i + 1, a]
            ELSE IF Takes(c.fmt[i + 1]) THEN Shown(c.fmt[i + 1], c.args[a]) \o f[i + 2, a + 1]
            ELSE Shown(c.fmt[i + 1], 0) \o f[i + 2, a]
    IN  f[1, 1]

\* A printf() that has made all its write()s has written what its format and
\* arguments mean, no text twice and none left out, though others wrote between.
PrintsFormat ==
    \A p \in Procs : call[p] # None /\ todo[p] = <<>> => said[p] = Meaning(call[p])
=============================================================================
