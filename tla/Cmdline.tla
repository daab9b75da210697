------------------------------- MODULE Cmdline -------------------------------
(***************************************************************************)
(* util_has_cmdline (boot/util.c): does the running kernel's command line  *)
(* have the parameter key=val?  It is a list of parameters [key, val], val *)
(* being NoValue for a bare flag, which the code reads in pieces of        *)
(* BUF_SIZE bytes; each piece is searched alone, as a text.  reads holds   *)
(* what strstr sees after each read, split at its spaces in the same form: *)
(* the whole parameters of the piece, what its ends have left of others,   *)
(* and the old bytes behind, for read does not end the buffer with a NUL.  *)
(* Of the texts themselves only these relations matter.                    *)
(***************************************************************************)
EXTENDS Integers, Sequences, FiniteSetsExt

CONSTANTS
    OccursIn,  \* pairs <<k, t>>: key k occurs in t, another key or a value
    Behind,    \* [such pairs -> texts]: what follows the next "=" in value t
    PrefixOf,  \* pairs <<v, t>>: value v begins another value t
    NoValue    \* value of a parameter without "="

Occurs(key, text) == key = text \/ <<key, text>> \in OccursIn
Begins(val, text) == val = text \/ <<val, text>> \in PrefixOf

(* The places of a text in which the key occurs.                           *)
Hits(text, key) == {i \in DOMAIN text : Occurs(key, text[i].key) \/ Occurs(key, text[i].val)}

(* The value behind the next "=" in the token of the hit, or behind the    *)
(* first one that comes after that token: none if there is no such "=".    *)
OwnValue(token, key) ==
    IF Occurs(key, token.key) THEN {token.val} \ {NoValue}
    ELSE {Behind[p] : p \in {<<key, token.val>>} \cap DOMAIN Behind}

LaterValue(text, i) ==
    LET later == {j \in DOMAIN text : j > i /\ text[j].val # NoValue}
    IN  {text[j].val : j \in {m \in later : \A k \in later : m <= k}}

Compared(text, i, key) ==
    IF OwnValue(text[i], key) # {} THEN OwnValue(text[i], key) ELSE LaterValue(text, i)

(* One round of the loop.  strstr returns a NULL that is used if there is  *)
(* no "=" behind the key, or no " " in the whole text.                     *)
Search(text, key, val) ==
    IF Hits(text, key) = {} THEN "no"
    ELSE LET values == Compared(text, Min(Hits(text, key)), key) IN
         IF values = {} \/ Len(text) < 2 THEN "crash"
         ELSE IF \E v \in values : Begins(val, v) THEN "yes"
         ELSE "no"

(* Mutant: only the first piece is searched.                               *)
FirstPieceOnly(reads, key, val) ==
    IF reads = << >> THEN "no" ELSE Search(reads[1], key, val)

(* The loop goes on to the next piece until one has the parameter.         *)
util_has_cmdline(reads, key, val) ==
    LET ends == {k \in DOMAIN reads : Search(reads[k], key, val) # "no"}
    IN  IF ends = {} THEN "no" ELSE Search(reads[Min(ends)], key, val)

-----------------------------------------------------------------------------
(* What callers mean by the question.                                      *)
HasParameter(params, key, val) ==
    \E i \in DOMAIN params : params[i] = [key |-> key, val |-> val]

(* Where the key is seen, it is a parameter of the command line, which has *)
(* it once: it is not a part of another key or value, not cut by the end   *)
(* of a piece, and not in old bytes.  val is no proper prefix of its value.*)
Seen(reads, key) == UNION {{reads[k][i] : i \in Hits(reads[k], key)} : k \in DOMAIN reads}

Unambiguous(params, reads, key, val) ==
    /\ \A t \in Seen(reads, key) :
        /\ t.key = key /\ t.val # NoValue
        /\ Begins(val, t.val) => val = t.val
        /\ \A u \in Seen(reads, key) : t = u
    /\ \A i \in DOMAIN params : params[i].key = key => params[i] \in Seen(reads, key)
    /\ Seen(reads, key) \subseteq {params[i] : i \in DOMAIN params}

(* strstr finds a space in every piece.                                    *)
Spaced(reads) == \A k \in DOMAIN reads : Len(reads[k]) >= 2
=============================================================================
