------------------------------- MODULE Parser -------------------------------
(***************************************************************************)
(* parse_memcached_string_head() of src/memcached_protocol.c: the state    *)
(* machine that turns the header of a request into a query_request_t.      *)
(*                                                                         *)
(* A header is a sequence of symbols: the separators, the letters of keys, *)
(* digits, and the words of the protocol, each of them one symbol (in any  *)
(* case: strcasecmp).  A token that is a word has that one symbol; a word  *)
(* with anything attached to it is another token.                          *)
(***************************************************************************)
EXTENDS Integers, Sequences, SequencesExt

CONSTANTS
    SP, CR, LF,             \* separators
    NUL,                    \* what strtok_r() puts in place of a separator
    Digits,                 \* the digits of numbers
    Digit,                  \* the value of each digit
    Headers,                \* the headers that arrive, each up to its first CR LF
    MAX_KEY_SIZE,           \* size of qr->key (251)
    MAX_QUERY_HEADER_SIZE   \* size of query_head_buf (512)

\* The state of parse_state_s that serves each command.
CommandState == [get |-> "s_get", set |-> "s_set", delete |-> "s_delete", sync |-> "s_sync", power |-> "s_power"]
Commands == DOMAIN CommandState

\* The symbols are different ones, qr->key has room for more than one of them,
\* and a header holds no '\0' and ends at its first CR LF.
ASSUME ParserAssumption ==
    /\ Digit \in [Digits -> 0 .. 9]
    /\ SP \notin {CR, LF, NUL} /\ NUL \notin {CR, LF}
    /\ {CR, LF} \cap Commands = {}
    /\ MAX_KEY_SIZE \in Nat \ 0 .. 2
    /\ MAX_QUERY_HEADER_SIZE \in Nat \ {0}
    /\ \A h \in Headers :
        /\ h \in Seq(Range(h)) /\ NUL \notin Range(h)
        /\ Len(h) \in 2 .. MAX_QUERY_HEADER_SIZE
        /\ \A i \in 1 .. Len(h) - 1 : (h[i] = CR /\ h[i + 1] = LF) <=> i = Len(h) - 1

VARIABLES
    line,       \* qr->query_head_buf
    buf,        \* the copy that is cut into tokens
    saveptr,    \* where the rest of buf starts
    token,      \* the command word
    state,      \* parse_state_s
    set_state,  \* parse_set_state_s
    qr,         \* the fields of query_request_t that the parser sets
    retval

vars == <<line, buf, saveptr, token, state, set_state, qr, retval>>

NoRequest == [cmd_type |-> "unknown", parse_status |-> "unknown", key |-> <<>>, flag |-> 0,
              exptime |-> 0, data_size |-> 0]

\* try_parse_memcached_string_head() has found the end of the header.
Init ==
    /\ line \in Headers
    /\ buf = <<>>
    /\ saveptr = 1
    /\ token = <<>>
    /\ state = "start"
    /\ set_state = "s_set_key"
    /\ qr = NoRequest
    /\ retval = 0

-----------------------------------------------------------------------------
\* The first position of s, from i on, that is not a space; Len(s) + 1 if none.
SkipSpaces(s, i) ==
    CHOOSE j \in i .. Len(s) + 1 :
        /\ j > Len(s) \/ s[j] # SP
        /\ \A k \in i .. j - 1 : s[k] = SP

\* The position of the first space of s from i on; Len(s) + 1 if none.
NextSpace(s, i) ==
    CHOOSE j \in i .. Len(s) + 1 :
        /\ j > Len(s) \/ s[j] = SP
        /\ \A k \in i .. j - 1 : s[k] # SP

\* strtok_r(..., " ", ...) on s from i on: whether there is a token, the
\* token, what is left of the buffer and where the next call goes on.
Strtok(s, i) ==
    LET from == SkipSpaces(s, i)
        to == NextSpace(s, from)
        cut == to <= Len(s)
    IN  [found |-> from <= Len(s),
         token |-> SubSeq(s, from, to - 1),
         buf |-> IF cut THEN [s EXCEPT ![to] = NUL] ELSE s,
         saveptr |-> IF cut THEN to + 1 ELSE to]

\* atoi() and atol(): the digits a token starts with, as a number.
LeadingDigits(t) ==
    CHOOSE n \in 0 .. Len(t) :
        /\ \A i \in 1 .. n : t[i] \in Digits
        /\ n < Len(t) => t[n + 1] \notin Digits
atoi(t) ==
    LET number[n \in 0 .. LeadingDigits(t)] == IF n = 0 THEN 0 ELSE 10 * number[n - 1] + Digit[t[n]]
    IN  number[LeadingDigits(t)]

\* The defect "strcpy()".
CopyKeyWhole(s) == s

\* strncpy() into qr->key, cut to its size.
CopyKey(s) == SubSeq(s, 1, Min({Len(s), MAX_KEY_SIZE - 1}))

EndsLine(s) == Len(s) >= 2 /\ s[Len(s) - 1] = CR /\ s[Len(s)] = LF

-----------------------------------------------------------------------------
\* The defect "leave the last byte of the buffer alone".
CopiedWhole == line

\* The header is copied, its last byte overwritten if it fills the buffer,
\* and the command word split off.
Copied == IF Len(line) = MAX_QUERY_HEADER_SIZE THEN SubSeq(line, 1, Len(line) - 1) ELSE line

SplitCommand ==
    LET t == Strtok(Copied, 1) IN
    /\ state = "start"
    /\ IF t.found
       THEN /\ token' = t.token
            /\ buf' = t.buf
            /\ saveptr' = t.saveptr
            /\ state' = "s_ready"
            /\ UNCHANGED <<qr, retval>>
       ELSE /\ retval' = -1
            /\ qr' = [qr EXCEPT !.parse_status = "failed"]
            /\ state' = "s_done"
            /\ UNCHANGED <<token, buf, saveptr>>
    /\ UNCHANGED <<line, set_state>>

Ready ==
    /\ state = "s_ready"
    /\ state' = IF \E c \in Commands : token = <<c>> THEN CommandState[token[1]] ELSE "s_fatal"
    /\ UNCHANGED <<line, buf, saveptr, token, set_state, qr, retval>>

\* The defect "leave the loop without the visit to s_fatal".
HandleCmdDone(c, succeeded, request) ==
    /\ qr' = [request EXCEPT !.cmd_type = c, !.parse_status = IF succeeded THEN "succ" ELSE "failed"]
    /\ state' = "s_done"

\* What HandleCmd does with the result of parse_get_cmd() and the others.
HandleCmd(c, succeeded, request) ==
    /\ qr' = [request EXCEPT !.cmd_type = c, !.parse_status = IF succeeded THEN "succ" ELSE "failed"]
    /\ state' = IF succeeded THEN "s_done" ELSE "s_fatal"

-----------------------------------------------------------------------------
(* get, delete, sync and power: ScanKey takes the rest of the line.        *)

\* The defect "keep a space before the CR LF".
ScanKeyKeepsSpace == CopyKey(SubSeq(buf, SkipSpaces(buf, saveptr), Len(buf) - 2))

\* Leading spaces are skipped; with the CR LF goes one space before it.  That
\* space may be one of the leading ones: the cut is before the text then, and
\* the CR LF is what is left of it.
ScanKey ==
    LET n == Len(buf)
        from == SkipSpaces(buf, saveptr)
        cut == IF buf[n - 2] = SP THEN n - 2 ELSE n - 1
    IN  CopyKey(IF cut < from THEN SubSeq(buf, from, n) ELSE SubSeq(buf, from, cut - 1))

\* The commands whose argument is any key, and the arguments of the others.
Accepts(c, key) ==
    \/ c \in {"get", "delete"}
    \/ c = "sync" /\ key \in {<<"index">>, <<"all">>}
    \/ c = "power" /\ key = <<"halt">>

KeyCommand(c) ==
    /\ state = CommandState[c]
    /\ IF EndsLine(buf)
       THEN HandleCmd(c, Accepts(c, ScanKey), [qr EXCEPT !.key = ScanKey])
       ELSE HandleCmd(c, FALSE, qr)
    /\ UNCHANGED <<line, buf, saveptr, token, set_state, retval>>

-----------------------------------------------------------------------------
(* set: four tokens                                                        *)

\* parse_set_cmd(): the CR LF is cut off, or the command fails.
SetStart ==
    /\ state = "s_set"
    /\ IF EndsLine(buf)
       THEN state' = "set_tokens" /\ buf' = SubSeq(buf, 1, Len(buf) - 2) /\ UNCHANGED qr
       ELSE HandleCmd("set", FALSE, qr) /\ UNCHANGED buf
    /\ UNCHANGED <<line, saveptr, token, set_state, retval>>

NextSetState ==
    [s_set_key |-> "s_set_flag", s_set_flag |-> "s_set_exptime", s_set_exptime |-> "s_set_bytes",
     s_set_bytes |-> "s_set_done"]

\* The field that a token fills.
StoreToken(t) ==
    CASE set_state = "s_set_key" -> [qr EXCEPT !.key = CopyKey(t)]
      [] set_state = "s_set_flag" -> [qr EXCEPT !.flag = atoi(t)]
      [] set_state = "s_set_exptime" -> [qr EXCEPT !.exptime = atoi(t)]
      [] set_state = "s_set_bytes" -> [qr EXCEPT !.data_size = atoi(t)]

\* A key that does not fit qr->key, with its '\0', is refused.
KeyTooLong(t) == set_state = "s_set_key" /\ Len(t) >= MAX_KEY_SIZE

\* One state of parse_set_state_s: a token is missing, too long or stored.
SetToken ==
    LET t == Strtok(buf, saveptr) IN
    /\ state = "set_tokens"
    /\ set_state \in DOMAIN NextSetState
    /\ \/ /\ ~ t.found \/ KeyTooLong(t.token)
          /\ set_state' = "s_set_failed"
          /\ UNCHANGED qr
       \/ /\ t.found /\ ~ KeyTooLong(t.token)
          /\ set_state' = NextSetState[set_state]
          /\ qr' = StoreToken(t.token)
    /\ buf' = t.buf
    /\ saveptr' = t.saveptr
    /\ UNCHANGED <<line, token, state, retval>>

SetEnd ==
    /\ state = "set_tokens"
    /\ set_state \in {"s_set_failed", "s_set_done"}
    /\ HandleCmd("set", set_state = "s_set_done", qr)
    /\ set_state' = "s_set_done"
    /\ UNCHANGED <<line, buf, saveptr, token, retval>>

-----------------------------------------------------------------------------
Fatal ==
    /\ state = "s_fatal"
    /\ state' = "s_done"
    /\ retval' = -1
    /\ qr' = [qr EXCEPT !.parse_status = "failed"]
    /\ UNCHANGED <<line, buf, saveptr, token, set_state>>

Next ==
    \/ SplitCommand \/ Ready \/ Fatal
    \/ \E c \in Commands \ {"set"} : KeyCommand(c)
    \/ SetStart \/ SetToken \/ SetEnd

Spec == Init /\ [][Next]_vars /\ WF_vars(Next)

-----------------------------------------------------------------------------
(* What a header says, read off its words and not by the scanner.          *)

\* The words of s: its longest parts without a space.
WordAt(s, i, j) ==
    /\ \A k \in i .. j : s[k] # SP
    /\ i = 1 \/ s[i - 1] = SP
    /\ j = Len(s) \/ s[j + 1] = SP
WordStarts(s) == {i \in 1 .. Len(s) : s[i] # SP /\ (i = 1 \/ s[i - 1] = SP)}
Word(s, n) ==
    LET i == CHOOSE i \in WordStarts(s) : Cardinality({k \in WordStarts(s) : k < i}) = n - 1
        j == CHOOSE j \in i .. Len(s) : WordAt(s, i, j)
    IN  SubSeq(s, i, j)
Words(s) == Cardinality(WordStarts(s))

Text == SubSeq(line, 1, Len(line) - 2)
Trailing == Len(Text) - Max({i \in 1 .. Len(Text) : Text[i] # SP} \cup {0})

Done == state = "s_done"
Accepted == Done /\ retval = 0 /\ qr.parse_status = "succ"

\* Every variable keeps its type; in particular a key and its '\0' fit, and
\* strtok_r() never goes on behind the end of the buffer.
TypeOK ==
    /\ Len(buf) <= MAX_QUERY_HEADER_SIZE
    /\ saveptr \in 1 .. Len(buf) + 1
    /\ state \in {"start", "s_ready", "set_tokens", "s_fatal", "s_done"} \cup Range(CommandState)
    /\ set_state \in DOMAIN NextSetState \cup {"s_set_done", "s_set_failed"}
    /\ qr.cmd_type \in Commands \cup {"unknown"}
    /\ qr.parse_status \in {"unknown", "succ", "failed"}
    /\ Len(qr.key) < MAX_KEY_SIZE
    /\ qr.flag \in Nat /\ qr.exptime \in Nat /\ qr.data_size \in Nat
    /\ retval \in {0, -1}

\* A key is the same key in every command: a header whose second word is its
\* only argument, or a set, names that word, whatever spaces surround it (one
\* at the end of a get or delete), if it fits.
KeyIsSecondWord ==
    Accepted /\ Words(Text) >= 2 =>
        /\ qr.cmd_type = "set" => qr.key = Word(Text, 2)
        /\ qr.cmd_type # "set" /\ Words(Text) = 2 /\ Trailing <= 1 => qr.key = CopyKey(Word(Text, 2))

\* A set is accepted exactly when it has its four arguments, its key fits and
\* its header left room in the buffer; its numbers are those of the header.
SetExact ==
    Done /\ qr.cmd_type = "set" =>
        /\ Accepted <=> /\ Words(Text) >= 5
                        /\ Len(Word(Text, 2)) < MAX_KEY_SIZE
                        /\ Len(line) < MAX_QUERY_HEADER_SIZE
        /\ Accepted => /\ qr.flag = atoi(Word(Text, 3))
                       /\ qr.exptime = atoi(Word(Text, 4))
                       /\ qr.data_size = atoi(Word(Text, 5))

\* sync and power are obeyed only with the argument they know, and nothing
\* attached to it or after it.
ControlExact ==
    Accepted /\ qr.cmd_type \in {"sync", "power"} =>
        /\ Words(Text) = 2
        /\ <<qr.cmd_type, Word(Text, 2)>> \in
             {<<"sync", <<"index">>>>, <<"sync", <<"all">>>>, <<"power", <<"halt">>>>}

\* set, sync and power are accepted for what they ask and for nothing else.  (get
\* and delete ask for a key only: KeyIsSecondWord.)
CommandsExact == SetExact /\ ControlExact

\* The caller looks at both: the return value and parse_status agree, and a
\* request that is handed on has the command its first word names.
StatusAgrees ==
    /\ retval = 0 <=> qr.parse_status = "succ"
    /\ retval = 0 => qr.cmd_type \in Commands /\ Word(Text, 1) = <<qr.cmd_type>>

\* The loops of the two state machines end for every header, with results
\* that agree.
ParseEnds == <>(Done /\ StatusAgrees)
=============================================================================
