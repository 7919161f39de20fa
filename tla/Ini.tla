-------------------------------- MODULE Ini --------------------------------
(***************************************************************************)
(* The line lexer of configuration files (ini.c): physical lines are       *)
(* stripped of comments, joined at trailing backslashes, and delivered as  *)
(* logical lines.  The same text can be lexed by hpu_ini_parse_file and by *)
(* hpu_ini_parse_buffer.                                                   *)
(*                                                                         *)
(* A text is a sequence of character classes: "quote", "hash", "bs" (the   *)
(* backslash), "blank" (space, tab, carriage return), "nl" and "text".     *)
(***************************************************************************)
EXTENDS Integers, FiniteSets, SequencesExt

CONSTANTS
    MaxLine,        \* HPU_INI_MAX_LINE
    MaxLogical      \* size of the buffer of a joined line

\* ini_lexer_t and the reader's position.  rc is "ok" or "config"
\* (HPULOGC_ERR_CONFIG at err_line); out is what the callback was given, with the
\* line it starts at.
NewLexer(text) == [rest |-> text, line_no |-> 0, logical |-> <<>>, logical_start |-> 0,
                   out |-> <<>>, rc |-> "ok", err_line |-> 0, done |-> FALSE]

Quotes(s, n) == Cardinality({i \in 1 .. n: s[i] = "quote"})

\* without the comment: from the first '#' outside double quotes
CutComment(s) ==
    LET hashes == {i \in DOMAIN s: s[i] = "hash" /\ Quotes(s, i) % 2 = 0}
    IN IF hashes = {} THEN s ELSE SubSeq(s, 1, Min(hashes) - 1)

\* without the characters of S at the end
TrimRight(s, S) == SubSeq(s, 1, Max({0} \cup {i \in DOMAIN s: s[i] \notin S}))

strip_comment_and_trim(s) == TrimRight(CutComment(s), {"blank", "nl"})

Fail(l, line) == [l EXCEPT !.rc = "config", !.err_line = line, !.done = TRUE]

\* the joined line goes to the callback, unless nothing of it is left
deliver(l) ==
    LET line == strip_comment_and_trim(l.logical)
        emptied == [l EXCEPT !.logical = <<>>, !.logical_start = 0]
    IN IF line = <<>> THEN emptied
       ELSE [emptied EXCEPT !.out = Append(@, <<line, l.logical_start>>)]

\* one physical line: an odd number of trailing backslashes continues it, and
\* the last backslash is dropped whenever there are two or an odd number
process_line(l, phys, is_last) ==
    LET s == TrimRight(CutComment(phys), {"blank"})
        bs == Len(s) - Len(TrimRight(s, {"bs"}))
        body == IF bs > 0 THEN Front(s) ELSE s
        joined == [l EXCEPT !.logical = @ \o body,
                            !.logical_start = IF body # <<>> /\ l.logical = <<>> /\ @ = 0
                                              THEN l.line_no ELSE @]
    IN IF Len(phys) >= MaxLine THEN Fail(l, l.line_no)
       ELSE IF Len(joined.logical) + 1 >= MaxLogical
       THEN Fail(l, IF l.logical_start # 0 THEN l.logical_start ELSE l.line_no)
       ELSE IF bs % 2 = 1 /\ ~is_last THEN joined
       ELSE deliver(joined)

Newlines(s) == {i \in DOMAIN s: s[i] = "nl"}
Drop(s, n) == SubSeq(s, n + 1, Len(s))

\* fgets reads up to the newline and keeps it; the end of the file is seen
\* only by a call that looks for one more character
parse_file(l) ==
    LET n == Min({MaxLine - 1, Len(l.rest)} \cup Newlines(l.rest))
        line == SubSeq(l.rest, 1, n)
        is_last == Last(line) # "nl" /\ n < MaxLine - 1
        next == [l EXCEPT !.rest = Drop(@, n), !.line_no = @ + 1]
    IN IF l.rest = <<>> THEN [deliver(l) EXCEPT !.done = TRUE]
       ELSE IF Last(line) # "nl" /\ ~is_last THEN Fail(next, next.line_no)
       ELSE process_line(next, line, is_last)

\* the buffer's lines come without their newline, and the last one is known
parse_buffer(l) ==
    LET n == Min({Len(l.rest)} \cup {i - 1 : i \in Newlines(l.rest)})
        rest == Drop(l.rest, n + 1)
        next == [l EXCEPT !.rest = rest, !.line_no = @ + 1]
    IN IF l.rest = <<>> THEN [deliver(l) EXCEPT !.done = TRUE]
       ELSE IF n >= MaxLine THEN Fail(next, next.line_no)
       ELSE process_line(next, SubSeq(l.rest, 1, n), rest = <<>>)

\* Both loops end after at most one round per character and one for the end.
hpu_ini_parse_file(text) ==
    LET lexer[n \in Nat] ==
          IF n = 0 THEN NewLexer(text)
          ELSE LET l == lexer[n - 1] IN IF l.done THEN l ELSE parse_file(l)
    IN lexer[Len(text) + 1]
hpu_ini_parse_buffer(text) ==
    LET lexer[n \in Nat] ==
          IF n = 0 THEN NewLexer(text)
          ELSE LET l == lexer[n - 1] IN IF l.done THEN l ELSE parse_buffer(l)
    IN lexer[Len(text) + 1]

-----------------------------------------------------------------------------
(* What the two readers owe each other, over a set of texts of two lines   *)

Text(first, second) == first \o <<"nl">> \o second
Commented(line) == CutComment(line) # line
Continued(line) == LET s == TrimRight(CutComment(line), {"blank"})
                   IN s # <<>> /\ Last(s) = "bs"

\* The same text gives the same logical lines and line numbers from a file and
\* from a buffer, whatever its quotes, comments, blanks and empty lines
\* (hpu_ini_parse_file, hpu_ini_parse_buffer), as long as lines are shorter than
\* MaxLine and one that ends with a backslash has a comment behind it...
SameLexing(firsts, seconds) ==
    \A first \in firsts, second \in seconds:
        (Continued(first) => Commented(first))
        => LET file == hpu_ini_parse_file(Text(first, second))
               buffer == hpu_ini_parse_buffer(Text(first, second))
           IN file.out = buffer.out /\ file.rc = buffer.rc

\* ... and without one, every such line is taken differently: the newline that
\* fgets keeps hides the backslash from process_line, so that a file neither
\* joins the line with the next nor drops the backslash, and a buffer does.
BackslashHidden(firsts, seconds) ==
    \A first \in firsts, second \in seconds:
        Continued(first) /\ ~Commented(first)
        => LET file == hpu_ini_parse_file(Text(first, second))
               buffer == hpu_ini_parse_buffer(Text(first, second))
           IN /\ Last(file.out[1][1]) = "bs"
              /\ file.out # buffer.out
=============================================================================
