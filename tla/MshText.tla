------------------------------- MODULE MshText -------------------------------
(***************************************************************************)
(* What MultiShell (src/src/userland/smu/shell/msh.c) does with text: it   *)
(* splits a line into tokens, matches wildcards, expands and completes     *)
(* words.  A text is a sequence of characters; the words exit and cd, the  *)
(* programs and the names of the current directory are constants, so that  *)
(* a short word can stand for each.  Paths with a slash are left out of    *)
(* expansion and completion: both list the directory before the last slash *)
(* and treat the name after it as they treat a name without one.           *)
(***************************************************************************)
EXTENDS Integers, Sequences, FiniteSets

CONSTANTS
    LineCap,     \* LINE_CAP
    TokenCap,    \* TOKEN_CAP
    TokenLen,    \* TOKEN_LEN
    ArgCap,      \* EXEC_ARG_CAP
    ExitWord, CdWord,   \* the builtins
    Programs,    \* the words g_path has a program for
    Directory,   \* the names getdents lists, in order
    SubDirs      \* those that are directories

ASSUME CapsAssumption ==
    /\ LineCap \in Nat \ {0} /\ TokenCap \in Nat /\ TokenLen \in Nat \ {0} /\ ArgCap \in Nat \ {0}

Blanks == {" ", "\t"}
Separators == Blanks \cup {";", "&", "|"}
WordEnds == Separators \cup {">", "<"}
QuoteMarks == {"'", "\""}
Wild == {"*", "?"}

Least(S) == CHOOSE i \in S : \A j \in S : i <= j
Greatest(S) == CHOOSE i \in S : \A j \in S : j <= i
StartsWith(text, prefix) ==
    Len(prefix) <= Len(text) /\ \A i \in 1 .. Len(prefix) : text[i] = prefix[i]

Token(t, g) == [text |-> t, glob |-> g]
Semicolon == <<";">>
AndAnd == <<"&", "&">>
OrOr == <<"|", "|">>
ListOps == {Semicolon, AndAnd, OrOr}
RedirectOps == {<<">">>, <<">", ">">>, <<"2", ">">>, <<"2", ">", ">">>, <<"<">>}

Unparsed == [ok |-> FALSE, tokens |-> <<>>]
Parsed(ts) == [ok |-> TRUE, tokens |-> ts]
-----------------------------------------------------------------------------
\* The word loop of parse_line from the i-th character on, inside the quote q
\* or outside quotes: the rest of the word, whether an unquoted wildcard is in
\* it, and where it ends.
WordFrom(line) ==
    LET n == Len(line)
        Bad == [ok |-> FALSE, text |-> <<>>, glob |-> FALSE, end |-> n + 1]
        Cons(c, g, w) == [w EXCEPT !.text = <<c>> \o @, !.glob = @ \/ g]
        W[i \in 1 .. n + 2, q \in QuoteMarks \cup {""}] ==
            IF i > n THEN IF q = "" THEN [Bad EXCEPT !.ok = TRUE] ELSE Bad
            ELSE IF q = "" /\ line[i] \in WordEnds THEN [Bad EXCEPT !.ok = TRUE, !.end = i]
            ELSE IF q = "" /\ line[i] \in QuoteMarks THEN W[i + 1, line[i]]
            ELSE IF q # "" /\ line[i] = q THEN W[i + 1, ""]
            ELSE IF line[i] = "\\" /\ q # "'"
                 THEN IF i = n THEN Bad ELSE Cons(line[i + 1], FALSE, W[i + 2, q])
            ELSE Cons(line[i], q = "" /\ line[i] \in Wild, W[i + 1, q])
    IN  [i \in 1 .. n |-> W[i, ""]]

\* The operator parse_line finds at the i-th character, <<>> for none.
OperatorAt(line, i) ==
    LET At(s) == i + Len(s) - 1 <= Len(line) /\ SubSeq(line, i, i + Len(s) - 1) = s
        found == {s \in ListOps \cup RedirectOps : At(s)}
    IN  IF found = {} THEN <<>> ELSE CHOOSE s \in found : \A r \in found : Len(r) <= Len(s)

\* parse_line.  The tokens of a line, or ok = FALSE for the results -1 (too
\* many tokens or one too long) and -2 (a lone & or |, an open quote, a
\* backslash at the end); main drops the line in both cases.
ParseLine(line) ==
    LET n == Len(line)
        word == WordFrom(line)
        P[i \in 1 .. n + 1] ==
            LET Then(tok, next) ==
                    LET rest == P[next]
                    IN  IF rest.ok THEN Parsed(<<tok>> \o rest.tokens) ELSE Unparsed
                op == OperatorAt(line, i)
            IN  IF i > n THEN Parsed(<<>>)
                ELSE IF line[i] \in Blanks THEN P[i + 1]
                ELSE IF line[i] = "#" THEN Parsed(<<>>)
                ELSE IF op # <<>> THEN Then(Token(op, FALSE), i + Len(op))
                ELSE IF line[i] \in {"&", "|"} \/ ~word[i].ok THEN Unparsed
                ELSE Then(Token(word[i].text, word[i].glob), word[i].end)
        all == P[1]
    IN  IF /\ all.ok /\ Len(all.tokens) <= TokenCap
           /\ \A k \in 1 .. Len(all.tokens) : Len(all.tokens[k].text) < TokenLen
        THEN all ELSE Unparsed

\* wildcard_match of the rest of the pattern with the rest of the text.
WildcardMatch(pattern, text) ==
    LET m == Len(pattern)
        n == Len(text)
        M[i \in 1 .. m + 1, j \in 1 .. n + 1] ==
            IF i > m THEN j > n
            ELSE IF pattern[i] = "*" THEN \E k \in j .. n + 1 : M[i + 1, k]
            ELSE j <= n /\ pattern[i] \in {"?", text[j]} /\ M[i + 1, j + 1]
    IN  M[1, 1]

Hidden(name, typed) == name[1] = "." /\ (typed = <<>> \/ typed[1] # ".")

\* expand_one: the arguments that are added to argv for a word with wildcards.
Expansion(word, argv) ==
    LET Match(name) == ~Hidden(name, word) /\ WildcardMatch(word, name)
        hits == SelectSeq(Directory, Match)
        args == IF hits = <<>> THEN <<word>> ELSE hits
        room == ArgCap - 1 - Len(argv)
    IN  SubSeq(args, 1, IF Len(args) > room THEN room ELSE Len(args))
-----------------------------------------------------------------------------
\* common_prefix of all the candidates.
CommonPrefix(words) ==
    LET w == CHOOSE w \in words : TRUE
        shared == {k \in 0 .. Len(w) : \A v \in words : StartsWith(v, SubSeq(w, 1, k))}
    IN  SubSeq(w, 1, Greatest(shared))

\* complete_line, with complete_command and complete_path: the line and the
\* cursor after Tab.  The word before the cursor is completed as far as all
\* candidates agree, what follows the cursor stays.
Completed(text, cursor) ==
    LET bounds == {i \in 1 .. cursor : text[i] \in Separators}
        start == IF bounds = {} THEN 0 ELSE Greatest(bounds)
        breaks == {i \in 1 .. start : text[i] \in Separators \ Blanks}
        segment == IF breaks = {} THEN 0 ELSE Greatest(breaks)
        command == \A i \in segment + 1 .. start : text[i] \in Blanks
        prefix == SubSeq(text, start + 1, cursor)
        names == {Directory[i] : i \in 1 .. Len(Directory)}
        matches == {w \in IF command THEN Programs \cup {CdWord, ExitWord}
                          ELSE {name \in names : ~Hidden(name, prefix)} : StartsWith(w, prefix)}
        best == CommonPrefix(matches)
        dir == ~command /\ Cardinality(matches) = 1 /\ best \in SubDirs
        full == IF dir THEN Append(best, "/") ELSE best
    IN  IF /\ matches # {} /\ (Len(best) > Len(prefix) \/ dir)
           /\ Len(text) - Len(prefix) + Len(full) + 1 <= LineCap
        THEN [text |-> SubSeq(text, 1, start) \o full \o SubSeq(text, cursor + 1, Len(text)),
              cursor |-> start + Len(full)]
        ELSE [text |-> text, cursor |-> cursor]
=============================================================================
