------------------------------ MODULE WinQuote ------------------------------
(***************************************************************************)
(* Command lines on Windows (platform/winquote.rs).  A string is a         *)
(* sequence of characters, and a character one of the names below or any   *)
(* other string, which stands for plain text without a special character.  *)
(***************************************************************************)
EXTENDS Integers, SequencesExt

Space       == "space"          \* separates arguments; the tab does the same
Newline     == "newline"        \* quoted like a space, but separates nothing
Quote       == "quote"
Backslash   == "backslash"
Surrogate   == "surrogate"      \* half a UTF-16 pair, which a String cannot hold
Replacement == "replacement"    \* what to_string_lossy puts in its place

Backslashes(n) == [i \in 1 .. n |-> Backslash]

NeedsQuotes(arg) ==
    arg = <<>> \/ \E i \in DOMAIN arg : arg[i] \in {Space, Newline, Quote}

\* Backslashes are held back until it is known what they stand before.
QuoteChar(acc, c) ==
    CASE c = Backslash -> [acc EXCEPT !.held = @ + 1]
      [] c = Quote     -> [out |-> acc.out \o Backslashes(2 * acc.held + 1) \o <<Quote>>, held |-> 0]
      [] OTHER         -> [out |-> acc.out \o Backslashes(acc.held) \o <<c>>, held |-> 0]

CloseUndoubled(acc) == acc.out \o Backslashes(acc.held) \o <<Quote>>

Close(acc) == acc.out \o Backslashes(2 * acc.held) \o <<Quote>>

QuoteArg(arg) ==
    IF NeedsQuotes(arg)
    THEN Close(FoldLeft(QuoteChar, [out |-> <<Quote>>, held |-> 0], arg))
    ELSE arg

Lossy(arg) == [i \in DOMAIN arg |-> IF arg[i] = Surrogate THEN Replacement ELSE arg[i]]

\* No quoted argument is empty, so an empty line has no argument yet.
Join(line, arg) ==
    line \o (IF line = <<>> THEN <<>> ELSE <<Space>>) \o QuoteArg(Lossy(arg))

QuoteCommandLine(args) == FoldLeft(Join, <<>>, args)
-----------------------------------------------------------------------------
(* The other end: how a process splits the line it is given.  `doubled` is  *)
(* the CRT's reading of "" inside quotes as one quote, which the reference  *)
(* parser leaves out; `closed` tells that the last character has just ended *)
(* a quoted stretch.                                                        *)
Unread == [args |-> <<>>, current |-> <<>>, started |-> FALSE,
           in_quotes |-> FALSE, closed |-> FALSE, held |-> 0]

\* A quote after 2n or 2n+1 backslashes.
ReadQuote(acc, doubled) ==
    LET flushed == acc.current \o Backslashes(acc.held \div 2)
        literal == acc.held % 2 = 1 \/ (doubled /\ acc.closed /\ acc.held = 0)
    IN  [acc EXCEPT !.current   = IF literal THEN flushed \o <<Quote>> ELSE flushed,
                    !.in_quotes = IF acc.held % 2 = 1 THEN @ ELSE ~@,
                    !.closed    = acc.in_quotes /\ acc.held % 2 = 0,
                    !.started = TRUE, !.held = 0]

\* Any other character but a backslash, or the end of the line.
ReadPlain(acc, c) ==
    LET flushed == acc.current \o Backslashes(acc.held)
    IN  IF c = Space /\ ~acc.in_quotes
        THEN [Unread EXCEPT !.args = IF acc.started THEN Append(acc.args, flushed) ELSE acc.args]
        ELSE [acc EXCEPT !.current = Append(flushed, c), !.started = TRUE,
                         !.closed = FALSE, !.held = 0]

ReadChar(acc, c, doubled) ==
    CASE c = Quote     -> ReadQuote(acc, doubled)
      [] c = Backslash -> [acc EXCEPT !.held = @ + 1, !.started = TRUE, !.closed = FALSE]
      [] OTHER         -> ReadPlain(acc, c)

\* The end of the line ends an argument, and a quoted stretch that is still open.
ParseCommandLine(line, doubled) ==
    LET read == FoldLeft(LAMBDA acc, c : ReadChar(acc, c, doubled), Unread, line)
    IN  ReadPlain([read EXCEPT !.in_quotes = FALSE], Space).args
=============================================================================
