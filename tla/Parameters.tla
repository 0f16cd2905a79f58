----------------------------- MODULE Parameters -----------------------------
(***************************************************************************)
(* How a process reads the parameters of its node (parameters.cpp).  They  *)
(* are a function from names to <<type, value>>; a name outside its domain *)
(* is not declared, one of type "not_set" is declared without a value.     *)
(* The other types are "bool", "integer", "double", "string" and           *)
(* "strings".  Whether a value is accepted and what is read are separate   *)
(* operators: an exception ends the process.                               *)
(***************************************************************************)
EXTENDS Integers, Sequences

CONSTANTS Infinite,     \* a number that is infinite,
          NaN,          \* one that is none,
          Fraction      \* and one that is no integer

ASSUME NumbersAssumption == {Infinite, NaN, Fraction} \cap Int = {} /\ NaN \notin {Infinite, Fraction}

\* What the value of a parameter can be.
IsParameter(parameter) ==
    CASE parameter[1] = "bool"    -> parameter[2] \in BOOLEAN
      [] parameter[1] = "integer" -> parameter[2] \in Int
      [] parameter[1] = "double"  -> parameter[2] \in Int \cup {Infinite, NaN, Fraction}
      [] parameter[1] = "strings" -> Len(parameter[2]) \in Nat
      [] OTHER                    -> parameter[1] \in {"not_set", "string"}

IsSet(parameters, name) == name \in DOMAIN parameters /\ parameters[name][1] # "not_set"
ValueOr(parameters, name, fallback) == IF IsSet(parameters, name) THEN parameters[name][2] ELSE fallback
OfType(parameters, name, types) == IsSet(parameters, name) => parameters[name][1] \in types

\* number_parameter(), number_or()
NumberParameterOk(parameters, name) == OfType(parameters, name, {"integer", "double"})
NumberOk(parameters, name) ==
    NumberParameterOk(parameters, name) /\ ValueOr(parameters, name, 0) \notin {Infinite, NaN}

\* integer_parameter(): a double will do that is close to an integer.  The distance of
\* NaN to what llround() makes of it, the smallest integer, compares false with
\* everything, so that it passes.
IntegerOk(parameters, name) ==
    NumberParameterOk(parameters, name) /\ ValueOr(parameters, name, 0) \notin {Infinite, Fraction}

Smallest == -99
IntegerOr(parameters, name, fallback) ==
    IF ValueOr(parameters, name, fallback) = NaN THEN Smallest ELSE ValueOr(parameters, name, fallback)

\* bool_or(), string_or(), string_array_or()
BoolOk(parameters, name) == OfType(parameters, name, {"bool"})
StringOk(parameters, name) == OfType(parameters, name, {"string"})
StringsOk(parameters, name) == OfType(parameters, name, {"strings"})
=============================================================================
