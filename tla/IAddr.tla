------------------------------- MODULE IAddr -------------------------------
(***************************************************************************)
(* iAddr (util/iAddr.cpp): a virtual address read from dotted text, by the *)
(* constructor or by setAddr, one character at a time, into an int - here  *)
(* its four octets, the highest first.  Text is a sequence of digits and   *)
(* dots.                                                                   *)
(***************************************************************************)
EXTENDS Integers, Sequences

CONSTANTS Dot,
          Digits,    \* the digits that occur
          MaxLen,    \* bound of the model: characters of a text
          IntMax     \* the greatest int, as std::stoi knows it

ASSUME IAddrAssumption ==
  /\ Digits \subseteq 0 .. 9 /\ Dot \notin Digits
  /\ MaxLen \in Nat /\ IntMax \in Nat

Texts == UNION {[1 .. n -> Digits \cup {Dot}] : n \in 0 .. MaxLen}

VARIABLES
  text,     \* addr_, the argument
  by,       \* the function that reads it
  i,        \* the characters read
  x, temp,  \* its local variables
  status,   \* "reading", "returned" or "threw"
  addr_i    \* the member of the object; a new object's is arbitrary

vars == <<text, by, i, x, temp, status, addr_i>>

-----------------------------------------------------------------------------
(* int arithmetic in octets, modulo 2^32.                                  *)
Zero == <<0, 0, 0, 0>>

ShiftLeft8(n) == <<n[2], n[3], n[4], 0>>

\* what is carried out of the last m octets when v is added to n
Carries(n, v) ==
  LET c[m \in 0 .. 4] == IF m = 0 THEN v ELSE (n[5 - m] + c[m - 1]) \div 256
  IN  c

\* mutant: nothing is carried to the octet before
PlusNoCarry(n, v) == [n EXCEPT ![4] = @ + v]

Plus(n, v) == [k \in 1 .. 4 |-> (n[k] + Carries(n, v)[4 - k]) % 256]

\* std::stoi throws invalid_argument for no digits, out_of_range for too many
stoi(s) ==
  LET value[n \in 0 .. Len(s)] == IF n = 0 THEN 0 ELSE 10 * value[n - 1] + s[n]
  IN  value[Len(s)]

CanRead(s) == s # <<>> /\ stoi(s) <= IntMax

\* mutant: the component is added before the shift
AddComponentFirst == ShiftLeft8(Plus(x, stoi(temp)))

\* x = x << 8; x += std::stoi(temp)
AddComponent == Plus(ShiftLeft8(x), stoi(temp))

-----------------------------------------------------------------------------
(* setAddr takes the last character for a separator, whatever it is.       *)
Separates == text[i + 1] = Dot \/ (by = "setAddr" /\ i + 1 = Len(text))

Throw == status' = "threw" /\ UNCHANGED <<x, temp, addr_i>>

ReadSeparator ==
  /\ status = "reading" /\ i < Len(text) /\ Separates
  /\ \/ ~CanRead(temp) /\ Throw
     \/ CanRead(temp) /\ x' = AddComponent /\ temp' = <<>>
                      /\ UNCHANGED <<status, addr_i>>
  /\ i' = i + 1
  /\ UNCHANGED <<text, by>>

ReadDigit ==
  /\ status = "reading" /\ i < Len(text) /\ ~Separates
  /\ temp' = Append(temp, text[i + 1])
  /\ i' = i + 1
  /\ UNCHANGED <<text, by, x, status, addr_i>>

\* behind the loop: the last component, and only then the member
ReadLast ==
  /\ status = "reading" /\ i = Len(text)
  /\ \/ ~CanRead(temp) /\ Throw
     \/ CanRead(temp) /\ x' = AddComponent /\ addr_i' = AddComponent
                      /\ status' = "returned" /\ UNCHANGED temp
  /\ UNCHANGED <<text, by, i>>

Init ==
  /\ text \in Texts /\ by \in {"iAddr", "setAddr"}
  /\ i = 0 /\ x = Zero /\ temp = <<>>
  /\ status = "reading"
  /\ addr_i = Zero

Next == ReadSeparator \/ ReadDigit \/ ReadLast

Spec == Init /\ [][Next]_vars

-----------------------------------------------------------------------------
(* The reference: the components between the dots, the last four as the    *)
(* octets, what exceeds 255 added to the component before, the rest lost.  *)
\* the components of the first n characters
Parts(s) ==
  LET parts[n \in 0 .. Len(s)] ==
        IF n = 0 THEN << <<>> >>
        ELSE IF s[n] = Dot THEN Append(parts[n - 1], <<>>)
        ELSE [parts[n - 1] EXCEPT ![Len(parts[n - 1])] = Append(@, s[n])]
  IN  parts

Components == Parts(text)[Len(text)]

\* the m-th from the right, with what it gets from the right of it
Sums(values) ==
  LET sum[m \in 0 .. 4] ==
        IF m = 0 THEN 0
        ELSE (IF m <= Len(values) THEN values[Len(values) + 1 - m] ELSE 0)
               + sum[m - 1] \div 256
  IN  sum

Positional(values) == [k \in 1 .. 4 |-> Sums(values)[5 - k] % 256]

(* The types of the variables.                                             *)
TypeOK ==
  /\ text \in Seq(Digits \cup {Dot}) /\ by \in {"iAddr", "setAddr"}
  /\ i \in 0 .. Len(text) /\ temp \in Seq(Digits)
  /\ x \in [1 .. 4 -> 0 .. 255] /\ addr_i \in [1 .. 4 -> 0 .. 255]
  /\ status \in {"reading", "returned", "threw"}

(* The constructor throws exactly for a text with a component that is      *)
(* empty or too great for an int, and else makes of it what the dotted     *)
(* form stands for: components over 255, or more than four of them, share  *)
(* the address of another text (iAddr.cpp:8-25).                           *)
ConstructorReads ==
  by = "iAddr" /\ status # "reading" =>
    LET values == [k \in DOMAIN Components |-> stoi(Components[k])]
    IN  IF \E k \in DOMAIN Components : ~CanRead(Components[k])
        THEN status = "threw"
        ELSE status = "returned" /\ addr_i = Positional(values)

(* Four components up to 255 are the four octets of the address: so two    *)
(* servers that are given different quads have different keys in the       *)
(* manager's hash, and a client finds the one it names (iAddr.cpp:8-25,    *)
(* msgr.cpp:163, :186).                                                    *)
Quad ==
  /\ Len(Components) = 4
  /\ \A k \in 1 .. 4 : CanRead(Components[k]) /\ stoi(Components[k]) <= 255

DottedQuad ==
  by = "iAddr" /\ status # "reading" /\ Quad =>
    /\ status = "returned"
    /\ addr_i = [k \in 1 .. 4 |-> stoi(Components[k])]
=============================================================================
