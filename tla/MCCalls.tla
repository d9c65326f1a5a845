------------------------------- MODULE MCCalls ------------------------------
(***************************************************************************)
(* Calls with one object of each kind: Main asks a basic object, which     *)
(* asks an eager one; both call a synchronous object that calls itself.    *)
(***************************************************************************)
EXTENDS Calls

CONSTANTS basic, eager, mutexed, direct

Kinds == [o \in Objects |->
            CASE o = basic -> "basic" [] o = eager -> "eager"
              [] o = mutexed -> "mutexed" [] o = direct -> "direct"]

Flow == [o \in Objects \cup {NoObject} |->
           CASE o = NoObject -> {basic, eager}
             [] o = basic -> {eager, mutexed}
             [] o = eager -> {direct, mutexed}
             [] o = mutexed -> {mutexed}
             [] o = direct -> {}]

Waits == [o \in Objects \cup {NoObject} |->
            CASE o = NoObject -> {basic} [] o = basic -> {eager} [] OTHER -> {}]
=============================================================================
