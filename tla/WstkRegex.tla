------------------------------ MODULE WstkRegex ------------------------------
(***************************************************************************)
(* wstk_regex (wstk-regex.c).  An expression is a sequence of items: a      *)
(* character, or a class of characters with the least and the greatest      *)
(* number of them; the quote escape (~), which nobody uses, is left out.    *)
(* A class takes all it can, and nothing is given back: if an item does not *)
(* fit the match is tried from the next character on.                       *)
(***************************************************************************)
EXTENDS Integers, SequencesExt

Char(c) == [of |-> {c}, least |-> 1, most |-> 1, capture |-> FALSE]
Class(S, least, most) == [of |-> S, least |-> least, most |-> most, capture |-> TRUE]
Many(text) == Len(text) + 1   \* as many as there are

(* how many characters of S text has from position p on, at most n *)
Run(text, p, S, n) ==
  CHOOSE k \in 0..(Len(text) - p + 1) :
    /\ k <= n /\ \A i \in p..(p + k - 1) : text[i] \in S
    /\ k = n \/ p + k > Len(text) \/ text[p + k] \notin S

(* One attempt: at the position after what has matched so far; a character *)
(* with no text left ends the search, any other misfit the attempt.        *)
MatchItem(text, m, item) ==
  LET n == Run(text, m.at, item.of, item.most) IN
  IF m.status # "SUCCESS" THEN m
  ELSE IF ~item.capture /\ m.at > Len(text) THEN [m EXCEPT !.status = "NOT_FOUND"]
  ELSE IF n < item.least THEN [m EXCEPT !.status = "again"]
  ELSE [m EXCEPT !.at = @ + n,
                 !.found = IF item.capture THEN Append(@, <<m.at, m.at + n - 1>>) ELSE @]

Attempt(text, expr, from) ==
  FoldLeft(LAMBDA m, item : MatchItem(text, m, item),
           [status |-> "SUCCESS", at |-> from, found |-> <<>>], expr)

(* the outcome of the first attempt that is not tried again *)
wstk_regex(text, expr) ==
  LET attempt == [i \in 1..Len(text) |-> Attempt(text, expr, i)]
      done == {i \in DOMAIN attempt : attempt[i].status # "again"}
  IN IF done = {} THEN [status |-> "NOT_FOUND", at |-> 1, found |-> <<>>]
     ELSE attempt[CHOOSE i \in done : \A j \in done : i <= j]

Part(text, range) == SubSeq(text, range[1], range[2])
=============================================================================
