------------------------------ MODULE MCLedger ------------------------------
(* A small instance of Ledger: three entities, one for each version order,  *)
(* two of which share a lock key.                                           *)
EXTENDS Ledger, TLC

CONSTANTS task, mail, page, here, there, s1, s2

MCEntities == {task, mail, page}
MCOrderOf == task :> "decimal" @@ mail :> "base64" @@ page :> "lexical"
MCLockKeyOf == task :> 1 @@ mail :> 2 @@ page :> 1

R(e, v, s) == [entity |-> e, version |-> v, scope |-> s]

Nine == <<57>>              \* "9"
NineAgain == <<48, 48, 57>> \* "009", the same number
Ten == <<49, 48>>           \* "10", which sorts before "9"
NotDecimal == <<118, 57>>   \* "v9"
Older == <<122, 122>>       \* "zz", which sorts after "00"
Newer == <<48, 48, 61, 61>> \* "00==", the larger base64 value
Fixed == <<65, 66>>         \* "AB"

MCBatches == {
    <<R(task, Nine, here)>>, <<R(task, NineAgain, there)>>, <<R(task, Ten, here)>>,
    <<R(task, Ten, there)>>, <<R(task, NotDecimal, here)>>,
    <<R(task, Nine, here), R(task, Ten, there)>>,
    <<R(mail, Older, here)>>, <<R(task, Nine, here), R(mail, Older, here)>>,
    <<R(mail, Newer, here), R(page, Fixed, here)>> }

(* Every record holds the same value, or two in an order of its own.        *)
OneSecret == [r \in Rec |-> <<s1>>]
TwoSecrets == [r \in Rec |-> IF r.entity = mail THEN <<s2, s1>> ELSE <<s1, s2>>]

=============================================================================
