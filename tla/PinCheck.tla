------------------------------- MODULE PinCheck -------------------------------
(***************************************************************************)
(* The comparison of the PIN typed by the user with the server's, of which *)
(* neither side learns the other's (crypto::smp of wivrn/common/smp.cpp):  *)
(* Alice is the headset (wivrn_client_pico.cpp), Bob the server.           *)
(*                                                                         *)
(* The group is a small one of the same kind, the squares modulo a safe    *)
(* prime; the hash is a parameter.  Random numbers are taken from small    *)
(* sets, one nonce for all proofs of a message.  No message is changed on  *)
(* its way: the control connection is encrypted and reliable.              *)
(***************************************************************************)
EXTENDS Integers

CONSTANTS SM_MODULUS, SM_ORDER, SM_GENERATOR,
          Hash(_, _, _),      \* SHA-256 of a version and one or two numbers
          SecretNumbers,      \* PINs, as numbers
          Exponents, Nonces   \* what random_exponent() may return

ASSUME PinCheckAssumption ==
  /\ SM_ORDER \in Nat \ {0} /\ SM_MODULUS = 2 * SM_ORDER + 1
  /\ SM_GENERATOR \in 2 .. SM_MODULUS - 2
  /\ SecretNumbers \subseteq 0 .. SM_ORDER - 1   \* six digits, as bytes
  /\ Exponents \subseteq Nat /\ Nonces \subseteq Nat
  /\ \A v \in 1 .. 8, a, b \in 0 .. SM_MODULUS - 1 : Hash(v, a, b) \in Nat

VARIABLES alice, bob,   \* crypto::smp of the two
          letter,       \* the message on its way
          turn,         \* the step that comes next
          verdict       \* what the two have found out

pinVars == <<alice, bob, letter, turn, verdict>>

-----------------------------------------------------------------------------
(* Arithmetic of the group.                                                 *)

powm(b, e) ==
  LET power[n \in Nat] == IF n = 0 THEN 1 ELSE (power[n - 1] * b) % SM_MODULUS
  IN power[e]

(* The generator is a square and the order a prime: the powers of the one   *)
(* repeat after the other, and what is not a multiple of the prime has an   *)
(* inverse modulo it.                                                       *)
ASSUME GroupAssumption ==
  /\ powm(SM_GENERATOR, SM_ORDER) = 1
  /\ \A a \in 1 .. SM_ORDER - 1 : \E i \in 1 .. SM_ORDER - 1 : (a * i) % SM_ORDER = 1

mulm(a, b) == (a * b) % SM_MODULUS
invm(a)    == CHOOSE i \in 1 .. SM_MODULUS - 1 : mulm(a, i) = 1

GroupElem(g) == g \in 2 .. SM_MODULUS - 2
Expon(x)     == x \in 1 .. SM_ORDER - 1

(* r - x c, as every proof hides its x. *)
Hidden(r, x, c) == (r - x * c) % SM_ORDER

-----------------------------------------------------------------------------
(* Proofs and their checks.  Unset stands for the missing second number.    *)

Unset == 0

proof_know_log(g, x, version, r) ==
  LET c == Hash(version, powm(g, r), Unset) IN [c |-> c, d |-> Hidden(r, x, c)]

check_know_log(k, g, x, version) ==
  k.c = Hash(version, mulm(powm(g, k.d), powm(x, k.c)), Unset)

(* That p = g3^r and q = g1^r g2^secret have the same r. *)
proof_equal_coords(me, r, version, n) ==
  LET c == Hash(version, powm(me.g3, n), mulm(powm(SM_GENERATOR, n), powm(me.g2, n)))
  IN [c |-> c, d1 |-> Hidden(n, r, c), d2 |-> Hidden(n, me.secret, c)]

check_equal_coords(me, k, p, q, version) ==
  k.c = Hash(version, mulm(powm(me.g3, k.d1), powm(p, k.c)),
                      mulm(powm(q, k.c), mulm(powm(SM_GENERATOR, k.d1), powm(me.g2, k.d2))))

(* That g3 of this side and r = qab^x3 have the same x3. *)
proof_equal_logs(me, version, n) ==
  LET c == Hash(version, powm(SM_GENERATOR, n), powm(me.qab, n))
  IN [c |-> c, d |-> Hidden(n, me.x3, c)]

check_equal_logs(me, k, r, version) ==
  k.c = Hash(version, mulm(powm(SM_GENERATOR, k.d), powm(me.g3o, k.c)),
                      mulm(powm(me.qab, k.d), powm(r, k.c)))

-----------------------------------------------------------------------------
(* The members of smp; those not yet set are Unset. *)
Reset == [secret |-> Unset, x2 |-> Unset, x3 |-> Unset, g2 |-> Unset, g3 |-> Unset,
          g3o |-> Unset, p |-> Unset, q |-> Unset, pab |-> Unset, qab |-> Unset]

PinInit ==
  /\ alice = Reset /\ bob = Reset
  /\ letter = <<>> /\ turn = "step1"
  /\ verdict = [alice |-> "none", bob |-> "none"]

(* This side's halves of g2 and g3, each with its proof. *)
Halves(me, v, n) ==
  [g2 |-> powm(SM_GENERATOR, me.x2), k2 |-> proof_know_log(SM_GENERATOR, me.x2, v, n),
   g3 |-> powm(SM_GENERATOR, me.x3), k3 |-> proof_know_log(SM_GENERATOR, me.x3, v + 1, n)]

HalvesInRange(m) ==
  /\ GroupElem(m.g2) /\ Expon(m.k2.d)
  /\ GroupElem(m.g3) /\ Expon(m.k3.d)

HalvesProved(m, v) ==
  /\ check_know_log(m.k2, SM_GENERATOR, m.g2, v)
  /\ check_know_log(m.k3, SM_GENERATOR, m.g3, v + 1)

Combine(me, m) ==
  [me EXCEPT !.g2 = powm(m.g2, me.x2), !.g3 = powm(m.g3, me.x3), !.g3o = m.g3]

(* p and q of this side. *)
Commit(me, r) ==
  [me EXCEPT !.p = powm(me.g3, r),
             !.q = mulm(powm(SM_GENERATOR, r), powm(me.g2, me.secret))]

(* Variant: the other side's halves are multiplied, not divided by. *)
CompareProducts(me, p1, q1, p2, q2) ==
  [me EXCEPT !.pab = mulm(p1, p2), !.qab = mulm(q1, q2)]

(* Alice's p and q divided by Bob's. *)
Compare(me, p1, q1, p2, q2) ==
  [me EXCEPT !.pab = mulm(p1, invm(p2)), !.qab = mulm(q1, invm(q2))]

CoordsInRange(m) == /\ GroupElem(m.p) /\ GroupElem(m.q)
                    /\ Expon(m.eq.d1) /\ Expon(m.eq.d2)

LogsInRange(m) == GroupElem(m.r) /\ Expon(m.log.d)

(* smp_cheated: whoever finds a message out of range or unproved gives up. *)
Cheated(who) ==
  /\ verdict' = [verdict EXCEPT ![who] = "cheated"] /\ turn' = "end"
  /\ UNCHANGED <<alice, bob, letter>>

Verdict(me, r) == IF powm(r, me.x3) = me.pab THEN "match" ELSE "differ"

step1 ==
  /\ turn = "step1" /\ turn' = "step2a"
  /\ \E s \in SecretNumbers, x2, x3 \in Exponents, n \in Nonces :
       /\ alice' = [Reset EXCEPT !.secret = s, !.x2 = x2, !.x3 = x3]
       /\ letter' = Halves(alice', 1, n)
  /\ UNCHANGED <<bob, verdict>>

step2a ==
  /\ turn = "step2a"
  /\ \/ /\ ~(HalvesInRange(letter) /\ HalvesProved(letter, 1))
        /\ Cheated("bob")
     \/ /\ HalvesInRange(letter) /\ HalvesProved(letter, 1)
        /\ turn' = "step2b"
        /\ \E x2, x3 \in Exponents :
             bob' = Combine([Reset EXCEPT !.x2 = x2, !.x3 = x3], letter)
        /\ UNCHANGED <<alice, letter, verdict>>

step2b ==
  /\ turn = "step2b" /\ turn' = "step3"
  /\ \E s \in SecretNumbers, r \in Exponents, n \in Nonces :
       LET me == Commit([bob EXCEPT !.secret = s], r) IN
       /\ bob' = me
       /\ letter' = [half |-> Halves(me, 3, n), p |-> me.p, q |-> me.q,
                     eq |-> proof_equal_coords(me, r, 5, n)]
  /\ UNCHANGED <<alice, verdict>>

Proved2(m) == /\ HalvesInRange(m.half) /\ CoordsInRange(m)
              /\ HalvesProved(m.half, 3)
              /\ check_equal_coords(Combine(alice, m.half), m.eq, m.p, m.q, 5)

step3 ==
  /\ turn = "step3"
  /\ \/ ~Proved2(letter) /\ Cheated("alice")
     \/ /\ Proved2(letter) /\ turn' = "step4"
        /\ \E r \in Exponents, n \in Nonces :
             LET half == Commit(Combine(alice, letter.half), r)
                 me   == Compare(half, half.p, half.q, letter.p, letter.q)
             IN
             /\ alice' = me
             /\ letter' = [p |-> me.p, q |-> me.q, eq |-> proof_equal_coords(me, r, 6, n),
                           r |-> powm(me.qab, me.x3), log |-> proof_equal_logs(me, 7, n)]
        /\ UNCHANGED <<bob, verdict>>

step4 ==
  LET me == Compare(bob, letter.p, letter.q, bob.p, bob.q)
      proved == /\ CoordsInRange(letter) /\ LogsInRange(letter)
                /\ check_equal_coords(bob, letter.eq, letter.p, letter.q, 6)
                /\ check_equal_logs(me, letter.log, letter.r, 7)
  IN
  /\ turn = "step4"
  /\ \/ ~proved /\ Cheated("bob")
     \/ /\ proved /\ turn' = "step5"
        /\ bob' = me
        /\ \E n \in Nonces :
             letter' = [r |-> powm(me.qab, me.x3), log |-> proof_equal_logs(me, 8, n)]
        /\ verdict' = [verdict EXCEPT !.bob = Verdict(me, letter.r)]
        /\ UNCHANGED alice

step5 ==
  LET proved == LogsInRange(letter) /\ check_equal_logs(alice, letter.log, letter.r, 8) IN
  /\ turn = "step5"
  /\ \/ ~proved /\ Cheated("alice")
     \/ /\ proved /\ turn' = "end"
        /\ verdict' = [verdict EXCEPT !.alice = Verdict(alice, letter.r)]
        /\ UNCHANGED <<alice, bob, letter>>

PinNext == step1 \/ step2a \/ step2b \/ step3 \/ step4 \/ step5

PinSpec == PinInit /\ [][PinNext]_pinVars

-----------------------------------------------------------------------------
PinTypeOK ==
  /\ turn \in {"step1", "step2a", "step2b", "step3", "step4", "step5", "end"}
  /\ verdict \in [{"alice", "bob"} -> {"none", "match", "differ", "cheated"}]
  /\ \A me \in {alice, bob} :
       {me.g2, me.g3, me.g3o, me.p, me.q, me.pab, me.qab} \subseteq 0 .. SM_MODULUS - 1

(* Every number of the message is in the range its receiver asks for. *)
InRange(m) ==
  /\ "half" \in DOMAIN m => HalvesInRange(m.half)
  /\ "k2"   \in DOMAIN m => HalvesInRange(m)
  /\ "eq"   \in DOMAIN m => CoordsInRange(m)
  /\ "log"  \in DOMAIN m => LogsInRange(m)

(* What either side finds out is whether the PINs are the same, whatever    *)
(* numbers were drawn; between two that follow the protocol no proof is     *)
(* ever refused, only a number that was drawn so unluckily that it is out   *)
(* of range.  (pin_match of the headset, the result of step4.)              *)
PinsCompared ==
  \A who \in {"alice", "bob"} :
    /\ verdict[who] = "match"   => alice.secret = bob.secret
    /\ verdict[who] = "differ"  => alice.secret # bob.secret
    /\ verdict[who] = "cheated" => ~InRange(letter)
=============================================================================
