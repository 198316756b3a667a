---------------------------- MODULE BackendUtils -----------------------------
(***************************************************************************)
(* utils and the balance monitor: what the backend's helper functions answer,*)
(* each for every input of a small range.                                   *)
(*                                                                          *)
(* utils/{functions,email}.go, api/validate/validateFuncs.go and            *)
(* schedule/services/balanceMonitor.go.  The int32s begin at -NarrowLimit.  A*)
(* string that is no number is NaN; decimals are exact, and an amount is an *)
(* integer number of units.  Of a text only its length, its first character's*)
(* kind and the others' kinds are kept.                                     *)
(***************************************************************************)
EXTENDS Integers, SequencesExt

CONSTANTS
  NaN, Lengths, MaxAmount,
  NarrowLimit    \* 2^31 in the code

ASSUME UtilsAssumption ==
  /\ NarrowLimit \in Nat \ {0} /\ Lengths \subseteq Nat
  /\ MaxAmount \in Nat /\ NaN \notin Int

VARIABLES
  balance, had,   \* the pool account's balance, and the ones it has had
  threshold, reached,   \* the monitor's limit, and whether the node answers
  amounts,    \* numbers read from text
  text,       \* what a user has typed
  mails       \* the balances and thresholds reported

utilVars == <<balance, had, threshold, reached, amounts, text, mails>>

-----------------------------------------------------------------------------
(* Numbers and text.                                                        *)

\* strconv: the nearest number of the type for one that is out of its range
\* (the error that comes with it is dropped), and 0 for what is no number.
clamped(n, limit) == IF n >= limit THEN limit - 1 ELSE IF n < -limit THEN -limit ELSE n
parseInt(s, limit) == IF s = NaN THEN 0 ELSE clamped(s, limit)

\* 2^63, of twice the bits.
WideLimit == 2 * NarrowLimit * NarrowLimit

\* A faulty conversion keeps the low bits of a number out of range.
truncated(s) ==
  IF s = NaN THEN 0 ELSE ((s + NarrowLimit) % (2 * NarrowLimit)) - NarrowLimit

StringToInt32(s) == parseInt(s, NarrowLimit)
StringToInt64(s) == parseInt(s, WideLimit)
Int64ToString(n) == n

\* Decimal arithmetic on two amounts, as numbers and as strings; a string that
\* is no number is an error.
decimal(f, a, b) ==
  CASE f = "Add" -> a + b
    [] f = "Sub" -> a - b
    [] f = "Mul" -> a * b

ofStrings(f, sa, sb) == IF NaN \in {sa, sb} THEN NaN ELSE decimal(f, sa, sb)
StringAddToString(sa, sb) == ofStrings("Add", sa, sb)
StringSubToString(sa, sb) == ofStrings("Sub", sa, sb)
StringMulToString(sa, sb) == ofStrings("Mul", sa, sb)

-----------------------------------------------------------------------------
(* Text.                                                                    *)

Digits == {"1", "digit"}
Letters == {"letter"}
Signs == {"sign"}   \* !@#￥%^&*
Kinds == Digits \cup Letters \cup Signs \cup {"newline", "other"}

noText == [len |-> 0, first |-> "none", rest |-> {}]
Texts == {[len |-> n, first |-> c, rest |-> K] :
            n \in Lengths \ {0, 1}, c \in Kinds, K \in SUBSET Kinds \ {{}}}

\* A text that is not empty, with a length and kinds of characters as given.
isText(t, lens, kinds) == t.len \in lens /\ t # noText /\ {t.first} \cup t.rest \subseteq kinds

IsPhone(t) == isText(t, {11}, Digits) /\ t.first = "1"
IsNumb(t) == isText(t, Nat, Digits)
CheckAccountFormat(t) == isText(t, 6..20, Letters \cup Digits) /\ t.first \in Letters
IsPassword(t) == isText(t, 6..20, Letters \cup Digits \cup Signs)

\* The validators of request fields say the same of strings.
IsPhoneNumber(t) == IsPhone(t)
CheckUserAccount(t) == CheckAccountFormat(t)
CheckUserNicknameLength(t) == isText(t, 1..20, Kinds \ {"newline"})

-----------------------------------------------------------------------------
(* The monitor.                                                             *)

\* The balance, or 0 with an error when the node cannot be reached.
GetBalance == [balance |-> IF reached THEN balance ELSE 0, err |-> ~reached]

\* A mail that cannot be sent is logged, and not sent again.
SendEmail(mail) == mails' = mails \cup {mail} \/ UNCHANGED mails

\* A faulty monitor takes the 0 of a failed call for the balance.
MonitorAnyway ==
  /\ threshold # NaN /\ GetBalance.balance <= threshold
  /\ mails' = mails \cup {<<GetBalance.balance, threshold>>}
  /\ UNCHANGED <<balance, had, threshold, reached, amounts, text>>

\* A mail is sent for a balance at or below the threshold.
Monitor ==
  /\ threshold # NaN /\ ~GetBalance.err /\ GetBalance.balance <= threshold
  /\ SendEmail(<<GetBalance.balance, threshold>>)
  /\ UNCHANGED <<balance, had, threshold, reached, amounts, text>>

-----------------------------------------------------------------------------

\* The helpers share no state: at most one of them has moved at a time.
NoArguments == amounts = <<>> /\ text = noText
NoMonitor == balance = 1 /\ had = {1} /\ reached /\ threshold = NaN

UtilInit ==
  /\ amounts = <<>> /\ text = noText
  /\ balance = 1 /\ had = {1} /\ reached = TRUE /\ mails = {}
  /\ threshold \in 0..MaxAmount \cup {NaN}

\* External: the account pays and is paid, the node comes and goes.
Transfer ==
  /\ NoArguments
  /\ balance' \in 1..MaxAmount /\ had' = had \cup {balance'} /\ reached' \in BOOLEAN
  /\ UNCHANGED <<threshold, amounts, text, mails>>

Argument ==
  /\ NoMonitor /\ text = noText
  /\ \E a \in -MaxAmount..MaxAmount \cup {NaN} :
       amounts' = IF Len(amounts) < 3 THEN Append(amounts, a) ELSE <<>>
  /\ UNCHANGED <<balance, had, threshold, reached, text, mails>>

Type ==
  /\ NoMonitor /\ amounts = <<>>
  /\ IF text = noText THEN text' \in Texts ELSE text' = noText
  /\ UNCHANGED <<balance, had, threshold, reached, amounts, mails>>

UtilNext == Monitor \/ Transfer \/ Argument \/ Type

UtilSpec == UtilInit /\ [][UtilNext]_utilVars

-----------------------------------------------------------------------------
(* Properties.                                                              *)

\* A mail about a low balance tells one that the account has had, at or below
\* the threshold: an unreachable node or a threshold that is no number raises no
\* alarm (Monitor; GetBalance answers 0 with its error).
MailsAreTrue == \A mail \in mails : mail[1] \in had /\ mail[1] <= mail[2]

\* Numbers read from text keep their order, the ones that do not fit their type
\* included (StringToInt32, StringToInt64).
TextKeepsOrder ==
  \A i, j \in DOMAIN amounts :
    NaN \notin {amounts[i], amounts[j]} /\ amounts[i] <= amounts[j] =>
      /\ StringToInt32(amounts[i]) <= StringToInt32(amounts[j])
      /\ StringToInt64(amounts[i]) <= StringToInt64(amounts[j])

\* Numbers written out are read back the same, whatever is done to them, as long
\* as they fit (Int64ToString, StringToInt64).
NumbersRoundTrip ==
  \A i, j \in DOMAIN amounts :
    \A s \in {StringAddToString(amounts[i], amounts[j]), StringSubToString(amounts[i], amounts[j]),
              StringMulToString(amounts[i], amounts[j])} :
      s \in -WideLimit..(WideLimit - 1) => StringToInt64(Int64ToString(s)) = s

\* An account's name can serve as its password and its nickname, a phone number
\* is a number, and no field that is checked may be empty (validateFuncs.go).
FieldsAgree ==
  /\ CheckUserAccount(text) => IsPassword(text) /\ CheckUserNicknameLength(text) /\ ~IsNumb(text)
  /\ IsPhoneNumber(text) => IsNumb(text) /\ IsPassword(text)
  /\ text = noText => ~IsPassword(text) /\ ~CheckUserNicknameLength(text) /\ ~IsNumb(text)

\* What the helpers promise those who call them, each on its inputs.
HelpersAgree == TextKeepsOrder /\ NumbersRoundTrip /\ FieldsAgree
=============================================================================
