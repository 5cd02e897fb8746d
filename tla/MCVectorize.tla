----------------------------- MODULE MCVectorize -----------------------------
(***************************************************************************)
(* Vectorize over payloads with zeros, values at and beyond the maxima,    *)
(* last transactions before and after this one, known and unknown          *)
(* merchants; every body in three orders of its members, and some of them  *)
(* cut at every token or with one member missing.                          *)
(***************************************************************************)
EXTENDS Vectorize, SequencesExt

Base == [amount |-> 50, installments |-> 2, requested_at |-> 2885, avg_amount |-> 100,
         tx_count_24h |-> 3, known_merchants |-> <<"m2", "m1">>, id |-> "m1", mcc |-> "5411",
         merchant_avg |-> 60, is_online |-> FALSE, card_present |-> TRUE, km_from_home |-> 29,
         last |-> <<>>]

Far == [Base EXCEPT !.amount = 20000, !.installments = 24, !.tx_count_24h = 21,
                    !.known_merchants = <<"m2">>, !.mcc = "9999", !.merchant_avg = 30000,
                    !.is_online = TRUE, !.card_present = FALSE, !.km_from_home = 5000,
                    !.requested_at = 9000, !.last = <<0, 3000>>]

Payloads ==
  {[p EXCEPT !.amount = a, !.avg_amount = avg, !.last = last, !.known_merchants = known, !.mcc = mcc] :
     p \in {Base, Far}, a \in {0, 50}, avg \in {0, 100},
     last \in {<<>>, <<2845, 10>>, <<9001, 0>>}, known \in {<<>>, <<"m1">>, <<"m2">>},
     mcc \in {e[1] : e \in mcc_risk} \cup {"9999"}}

Orders == {"written", "reversed", "rotated"}

Ordered(order, ms) ==
  CASE order = "written" -> ms [] order = "reversed" -> Reverse(ms)
    [] order = "rotated" -> Tail(ms) \o <<Head(ms)>>

Joined(ms) ==
  FoldLeft(LAMBDA acc, m : IF acc = <<>> THEN m ELSE acc \o <<Comma>> \o m, <<>>, ms)

\* The k-th member is left out; k = 0 leaves none out.
Object(order, ms, k) ==
  <<OpenBrace>>
  \o Joined(Ordered(order, [i \in 1..(Len(ms) - (IF k = 0 THEN 0 ELSE 1)) |->
                             ms[IF k = 0 \/ i < k THEN i ELSE i + 1]]))
  \o <<CloseBrace>>

Member(key, value) == <<Str(key), Colon>> \o value

Known(ms) ==
  <<OpenBracket>> \o Joined([i \in DOMAIN ms |-> <<Str(ms[i])>>]) \o <<CloseBracket>>

\* drop[1] is the object (1 to 5, 6 for the body), drop[2] its member left out.
Body(p, order, drop) ==
  LET O(o, ms) == Object(order, ms, IF drop[1] = o THEN drop[2] ELSE 0)
  IN  O(6, <<
    Member("id", <<Str("tx")>>),
    Member("transaction", O(1, <<
      Member("amount", <<Num(p.amount)>>),
      Member("installments", <<Num(p.installments)>>),
      Member("requested_at", <<Time(p.requested_at)>>)>>)),
    Member("customer", O(2, <<
      Member("avg_amount", <<Num(p.avg_amount)>>),
      Member("tx_count_24h", <<Num(p.tx_count_24h)>>),
      Member("known_merchants", Known(p.known_merchants))>>)),
    Member("merchant", O(3, <<
      Member("id", <<Str(p.id)>>),
      Member("mcc", <<Str(p.mcc)>>),
      Member("avg_amount", <<Num(p.merchant_avg)>>)>>)),
    Member("terminal", O(4, <<
      Member("is_online", <<Bool(p.is_online)>>),
      Member("card_present", <<Bool(p.card_present)>>),
      Member("km_from_home", <<Num(p.km_from_home)>>)>>)),
    Member("last_transaction",
      IF p.last = <<>> THEN <<Lit("null")>>
      ELSE O(5, <<Member("timestamp", <<Time(p.last[1])>>),
                  Member("km_from_current", <<Num(p.last[2])>>)>>))>>)

Request(p, body, whole) == [payload |-> p, body |-> body, whole |-> whole]

Drops == ((1..4) \X (1..3)) \cup ({5} \X (1..2)) \cup ({6} \X (2..6))

MCRequests ==
  {Request(p, Body(p, o, <<0, 0>>), TRUE) : p \in Payloads \cup {Far}, o \in Orders}
  \cup UNION {{Request(p, SubSeq(Body(p, o, <<0, 0>>), 1, k), FALSE) :
                 k \in 0..(Len(Body(p, o, <<0, 0>>)) - 1)} : p \in {Base, Far}, o \in Orders}
  \cup {Request(p, Body(p, o, d), FALSE) : p \in {Far}, o \in Orders, d \in Drops}
=============================================================================
