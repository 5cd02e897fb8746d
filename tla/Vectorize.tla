------------------------------ MODULE Vectorize ------------------------------
(***************************************************************************)
(* The two vectorizers of internal/vectorize: VectorizeJSON, which picks   *)
(* the fields out of the body's bytes on the serving path, and Vectorize,  *)
(* which computes from a decoded Payload and which the tests and the tools *)
(* trust.  A component is a quotient <<num, den>> with den >= 0, and a den *)
(* of 0 is what float64 makes of it: <<0, 0>> is NaN, a positive num +Inf. *)
(* Amounts are whole, times are whole minutes from a Monday.               *)
(***************************************************************************)
EXTENDS Json, Integers

CONSTANTS Requests   \* [payload, body, whole]: what a client means, what it sends,
                     \* and whether it sends all of it

-----------------------------------------------------------------------------
\* What a client writes, as far as it gets: every name of an object or of a
\* member that occurs where the scanner looks for it stands in front of a colon
\* and of what the payload has under that name.  The order is free, a member
\* may be missing, and whatever else the body holds is free too.
Names(b, key) == {i \in 1..Len(b) : b[i] = Str(key)}

\* The tokens i to j are an object with no other one in it.
IsObject(b, i, j) ==
  /\ i < j /\ b[i] = OpenBrace /\ b[j] = CloseBrace
  /\ \A k \in (i + 1)..(j - 1) : b[k] \notin {OpenBrace, CloseBrace}

\* After the name comes a colon, then the first token of the value.
ThenComes(b, name, token) ==
  \A i \in Names(b, name) :
    (i + 1 <= Len(b) => b[i + 1] = Colon) /\ (i + 2 <= Len(b) => b[i + 2] = token)

\* No brace opens in the object before one closes.
WritesObject(b, name) ==
  /\ ThenComes(b, name, OpenBrace)
  /\ \A i \in Names(b, name) : \A k \in (i + 3)..Len(b) :
       b[k] = OpenBrace => \E j \in (i + 3)..(k - 1) : b[j] = CloseBrace

WritesMember(b, name, key, token) ==
  \A i \in Names(b, name), j \in 1..Len(b) : IsObject(b, i + 2, j) =>
    \A k \in (i + 3)..j :
      b[k] = Str(key) =>
        b[k + 1] = Colon /\ b[k + 2] = token /\ b[k + 3] \in {Comma, CloseBrace}

\* The array's tokens are the merchants and the commas between them.
WritesMerchants(b, merchants) ==
  \A i \in Names(b, "customer"), j \in 1..Len(b) : IsObject(b, i + 2, j) =>
    \A k \in (i + 3)..j : b[k] = Str("known_merchants") =>
      /\ b[k + 1] = Colon /\ b[k + 2] = OpenBracket
      /\ \E m \in (k + 3)..(j - 1) :
           /\ b[m] = CloseBracket
           /\ \A l \in (k + 3)..(m - 1) :
                b[l] = Comma \/ \E n \in DOMAIN merchants : b[l] = Str(merchants[n])
           /\ \A n \in DOMAIN merchants : \E l \in (k + 3)..(m - 1) : b[l] = Str(merchants[n])

Writes(b, p) ==
  /\ \A name \in {"transaction", "customer", "merchant", "terminal"} : WritesObject(b, name)
  /\ WritesMember(b, "transaction", "amount", Num(p.amount))
  /\ WritesMember(b, "transaction", "installments", Num(p.installments))
  /\ WritesMember(b, "transaction", "requested_at", Time(p.requested_at))
  /\ WritesMember(b, "customer", "avg_amount", Num(p.avg_amount))
  /\ WritesMember(b, "customer", "tx_count_24h", Num(p.tx_count_24h))
  /\ WritesMerchants(b, p.known_merchants)
  /\ WritesMember(b, "merchant", "id", Str(p.id))
  /\ WritesMember(b, "merchant", "mcc", Str(p.mcc))
  /\ WritesMember(b, "merchant", "avg_amount", Num(p.merchant_avg))
  /\ WritesMember(b, "terminal", "is_online", Bool(p.is_online))
  /\ WritesMember(b, "terminal", "card_present", Bool(p.card_present))
  /\ WritesMember(b, "terminal", "km_from_home", Num(p.km_from_home))
  /\ p.last = <<>> => ThenComes(b, "last_transaction", Lit("null"))
  /\ p.last # <<>> =>
       /\ WritesObject(b, "last_transaction")
       /\ WritesMember(b, "last_transaction", "timestamp", Time(p.last[1]))
       /\ WritesMember(b, "last_transaction", "km_from_current", Num(p.last[2]))

\* The object is there, to its closing brace, and so are its members.
Has(b, name, keys) ==
  /\ Names(b, name) # {}
  /\ \A i \in Names(b, name) : \E j \in 1..Len(b) :
       IsObject(b, i + 2, j) /\ \A key \in keys : \E k \in (i + 3)..j : b[k] = Str(key)

Complete(b, p) ==
  /\ Has(b, "transaction", {"amount", "installments", "requested_at"})
  /\ Has(b, "customer", {"avg_amount", "tx_count_24h", "known_merchants"})
  /\ Has(b, "merchant", {"id", "mcc", "avg_amount"})
  /\ Has(b, "terminal", {"is_online", "card_present", "km_from_home"})
  /\ IF p.last = <<>>
     THEN /\ Names(b, "last_transaction") # {}
          /\ \A i \in Names(b, "last_transaction") : i + 2 <= Len(b)
     ELSE Has(b, "last_transaction", {"timestamp", "km_from_current"})

IsPayload(p) ==
  /\ {p.amount, p.installments, p.requested_at, p.avg_amount, p.tx_count_24h, p.merchant_avg,
      p.km_from_home} \subseteq Nat
  /\ p.is_online \in BOOLEAN /\ p.card_present \in BOOLEAN
  /\ p.last = <<>> \/ p.last \in Nat \X Nat

ASSUME RequestsAssumption ==
  \A r \in Requests :
    /\ IsPayload(r.payload)
    /\ r.body \in Seq(Tokens) /\ Writes(r.body, r.payload)
    /\ r.whole => Complete(r.body, r.payload)

-----------------------------------------------------------------------------
VARIABLES request,   \* never written
          answer     \* what VectorizeJSON returns

vars == <<request, answer>>

norm == [max_amount |-> 10000, max_installments |-> 12, amount_vs_avg_ratio |-> 10,
         max_minutes |-> 1440, max_km |-> 1000, max_tx_count_24h |-> 20,
         max_merchant_avg_amount |-> 10000]

\* resources/mcc_risk.json, in hundredths.
mcc_risk ==
  {<<"5411", 15>>, <<"5812", 30>>, <<"5912", 20>>, <<"5944", 45>>, <<"7801", 80>>,
   <<"7802", 75>>, <<"7995", 85>>, <<"4511", 35>>, <<"5311", 25>>, <<"5999", 50>>}

defaultMCCRisk == 50

mccRisk(mcc) ==
  LET entry == {e \in mcc_risk : e[1] = mcc}
  IN  <<IF entry = {} THEN defaultMCCRisk ELSE (CHOOSE e \in entry : TRUE)[2], 100>>

\* The switch that repeats the table.
mccRiskFast(mcc) ==
  <<CASE mcc = "5411" -> 15 [] mcc = "5812" -> 30 [] mcc = "5912" -> 20
      [] mcc = "5944" -> 45 [] mcc = "7801" -> 80 [] mcc = "7802" -> 75
      [] mcc = "7995" -> 85 [] mcc = "4511" -> 35 [] mcc = "5311" -> 25
      [] mcc = "5999" -> 50 [] OTHER -> defaultMCCRisk, 100>>

Zero == <<0, 1>>
Unit == <<1, 1>>
Minus == <<-1, 1>>

ClampBelow(x) == IF x[1] < 0 THEN Zero ELSE x     \* mutant: no upper bound

\* Both comparisons are false for NaN, which passes.
clamp(x) == IF x[1] < 0 THEN Zero ELSE IF x[1] > x[2] THEN Unit ELSE x

Hour(t) == (t \div 60) % 24
Weekday(t) == ((t \div 1440) + 1) % 7             \* Sunday is 0

weekdayMonZero(t) == (Weekday(t) + 6) % 7

boolToFloat(b) == IF b THEN Unit ELSE Zero

Vector(seq) == [i \in 0..13 |-> seq[i + 1]]

\* The rules of the payload's fields; no last transaction is last = <<>>.
Vectorize(p) ==
  LET last == p.last # <<>>
  IN  Vector(<<
        clamp(<<p.amount, norm.max_amount>>),
        clamp(<<p.installments, norm.max_installments>>),
        clamp(<<p.amount, p.avg_amount * norm.amount_vs_avg_ratio>>),
        <<Hour(p.requested_at), 23>>,
        <<weekdayMonZero(p.requested_at), 6>>,
        IF last THEN clamp(<<p.requested_at - p.last[1], norm.max_minutes>>) ELSE Minus,
        IF last THEN clamp(<<p.last[2], norm.max_km>>) ELSE Minus,
        clamp(<<p.km_from_home, norm.max_km>>),
        clamp(<<p.tx_count_24h, norm.max_tx_count_24h>>),
        boolToFloat(p.is_online),
        boolToFloat(p.card_present),
        boolToFloat(\A i \in DOMAIN p.known_merchants : p.known_merchants[i] # p.id),
        mccRisk(p.mcc),
        clamp(<<p.merchant_avg, norm.max_merchant_avg_amount>>)>>)

BadPayload == [ok |-> FALSE, out |-> Vector([i \in 1..14 |-> Zero])]

InBody(b, obj, key) == rawField(b, key)           \* mutant: the key anywhere in the body

\* A field of one of the four objects.
InObject(b, obj, key) ==
  LET o == objectField(b, obj) IN IF o.ok THEN rawField(o.raw, key) ELSE NotFound

VectorizeJSON(b) ==
  LET amount == InObject(b, "transaction", "amount")
      installments == InObject(b, "transaction", "installments")
      requestedAt == InObject(b, "transaction", "requested_at")
      avgAmount == InObject(b, "customer", "avg_amount")
      txCount24h == InObject(b, "customer", "tx_count_24h")
      knownMerchants == InObject(b, "customer", "known_merchants")
      merchantID == InObject(b, "merchant", "id")
      mcc == InObject(b, "merchant", "mcc")
      merchantAvg == InObject(b, "merchant", "avg_amount")
      isOnline == InObject(b, "terminal", "is_online")
      cardPresent == InObject(b, "terminal", "card_present")
      kmFromHome == InObject(b, "terminal", "km_from_home")
      last == rawField(b, "last_transaction")
      null == last.raw # <<>> /\ last.raw[1] = Lit("null")
      lastObj == objectFromValue(last.raw)
      timestamp == rawField(lastObj.raw, "timestamp")
      km == rawField(lastObj.raw, "km_from_current")
      val(field) == field.raw[1].n
      yes(field) == field.raw[1].s = "true"
  IN  IF /\ \A f \in {amount, installments, avgAmount, txCount24h, merchantAvg, kmFromHome} :
              IsNumber(f)
         /\ IsTime(requestedAt) /\ IsString(merchantID) /\ IsString(mcc)
         /\ IsBool(isOnline) /\ IsBool(cardPresent) /\ knownMerchants.ok
         /\ last.ok /\ (null \/ (lastObj.ok /\ IsTime(timestamp) /\ IsNumber(km)))
      THEN [ok |-> TRUE, out |-> Vector(<<
             clamp(<<val(amount), norm.max_amount>>),
             clamp(<<val(installments), norm.max_installments>>),
             clamp(<<val(amount), val(avgAmount) * norm.amount_vs_avg_ratio>>),
             <<Hour(val(requestedAt)), 23>>,
             <<weekdayMonZero(val(requestedAt)), 6>>,
             IF null THEN Minus
             ELSE clamp(<<val(requestedAt) - val(timestamp), norm.max_minutes>>),
             IF null THEN Minus ELSE clamp(<<val(km), norm.max_km>>),
             clamp(<<val(kmFromHome), norm.max_km>>),
             clamp(<<val(txCount24h), norm.max_tx_count_24h>>),
             boolToFloat(yes(isOnline)),
             boolToFloat(yes(cardPresent)),
             boolToFloat(~containsQuoted(knownMerchants.raw, merchantID.raw[1])),
             mccRiskFast(mcc.raw[1].s),
             clamp(<<val(merchantAvg), norm.max_merchant_avg_amount>>)>>)]
      ELSE BadPayload

Waiting == [ok |-> FALSE, out |-> <<>>]

Init == request \in Requests /\ answer = Waiting

\* handleScore's call.
Parse ==
  /\ answer = Waiting
  /\ answer' = VectorizeJSON(request.body)
  /\ UNCHANGED request

Spec == Init /\ [][Parse]_vars

-----------------------------------------------------------------------------
\* However the body is written, whatever a cut or a missing member leaves of
\* it, a vector that VectorizeJSON returns is the one Vectorize computes from
\* the payload the client meant: the scanner never takes one field for another.
NeverMisread == answer.ok => answer.out = Vectorize(request.payload)

\* Only a body that lacks something is refused, and so answered by the
\* fallback instead of a search.
RefusesOnlyTheIncomplete ==
  answer # Waiting /\ ~answer.ok => ~request.whole

InRange(x) == 0 <= x[1] /\ x[1] <= x[2] /\ x[2] > 0

\* The two sentinels come together and only for a null last transaction, and
\* every other component is in [0, 1], but for the ratio of two zero amounts.
OnlyZeroOverZeroEscapesTheClamp ==
  answer.ok =>
    \A i \in 0..13 :
      \/ InRange(answer.out[i]) /\ ~(i \in {5, 6} /\ request.payload.last = <<>>)
      \/ i \in {5, 6} /\ request.payload.last = <<>> /\ answer.out[i] = Minus
      \/ i = 2 /\ request.payload.amount = 0 /\ request.payload.avg_amount = 0

\* "Dimensions 5 and 6 are the sentinel -1 when last_transaction is null; every
\* other value is clamped to [0, 1]".
EveryOtherValueClamped ==
  answer.ok =>
    \A i \in 0..13 : InRange(answer.out[i])
                     \/ (i \in {5, 6} /\ request.payload.last = <<>> /\ answer.out[i] = Minus)
=============================================================================
