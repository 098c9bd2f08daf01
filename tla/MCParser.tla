------------------------------ MODULE MCParser ------------------------------
(***************************************************************************)
(* Parser on all short headers: a set with up to five arguments, any other *)
(* command word with up to MaxTail symbols after it, all with a space or   *)
(* none before them, and short headers without a command.                  *)
(***************************************************************************)
EXTENDS Parser

CONSTANTS MaxTail

MCDigit == [d \in Digits |-> 1]

\* Up to n symbols of S.
Upto(S, n) == UNION {[1 .. i -> S] : i \in 0 .. n}

\* The arguments of a set: a number, a letter, both, and one that is too long
\* for a key; each after one space, or each after two.
Arguments == {<<"1">>, <<"k">>, <<"1", "1", "k">>, <<"k", "k">>}
SetTails ==
    {FlattenSeq([i \in DOMAIN args |-> gap \o args[i]]) \o last :
        args \in Upto(Arguments, 5), gap \in {<<SP>>, <<SP, SP>>}, last \in {<<>>, <<SP>>}}

\* What may follow each command.
Tails(c) ==
    CASE c = "set" -> SetTails
      [] c = "sync" -> Upto({SP, "k", "index", "all"}, MaxTail)
      [] c = "power" -> Upto({SP, "k", "halt"}, MaxTail)
      [] OTHER -> Upto({SP, "k", CR, LF}, MaxTail)

Ended(text) == text \o <<CR, LF>>

\* The header fits the buffer, and its first CR LF is its end.
Fits(h) ==
    /\ Len(h) <= MAX_QUERY_HEADER_SIZE
    /\ \A i \in 1 .. Len(h) - 2 : ~ (h[i] = CR /\ h[i + 1] = LF)

MCHeaders ==
    {h \in UNION {{Ended(lead \o <<c>> \o tail) : lead \in {<<>>, <<SP>>}, tail \in Tails(c)} : c \in Commands}
           \cup {Ended(text) : text \in Upto({SP, "k", "get"}, 3)} : Fits(h)}
=============================================================================
