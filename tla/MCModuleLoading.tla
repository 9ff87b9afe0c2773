---------------------------- MODULE MCModuleLoading ----------------------------
EXTENDS ModuleLoading

CONSTANTS app, lib, base, opt, hid, builder, user

File(place, name) == [place |-> place, name |-> name]
L(name) == [kind |-> "local", name |-> name]
E(name) == [kind |-> "external", name |-> name]

\* app imports lib and base; lib imports base, and once changed also an internal provider of the
\* sysroot; base, once changed, imports lib.
Graph ==
  [f \in Files |-> [t \in Texts |->
     CASE f = File("user", app) -> IF t = 1 THEN <<L(lib), L(base)>> ELSE <<L(hid), L(base), E(hid)>>
       [] f = File("user", lib) -> IF t = 1 THEN <<L(base)>> ELSE <<L(base), E(hid)>>
       [] f = File("user", base) -> IF t = 3 THEN <<L(lib)>> ELSE <<>>
       [] OTHER -> <<>>]]

\* base has another interface once changed; lib has not.
Faces == [f \in Files |-> [t \in Texts |-> IF f.name = base THEN t ELSE 1]]

TheContracts == <<opt>>
UserFiles == {File("user", n) : n \in {app, lib, base}}
SysrootFiles == {File("sysroot", n) : n \in {opt, hid}}
Sources == [f \in Files |-> IF f \in UserFiles \cup SysrootFiles THEN 1 ELSE Absent]

Made(f) == [text |-> 1, object |-> 1,
            needs |-> [n \in (CASE f = File("user", lib) -> {base, opt}
                                [] f = File("user", base) -> {opt}
                                [] OTHER -> {})
                       |-> [fingerprint |-> 1, text |-> 1]]]

Store(made, with) ==
  [libraries |-> [f \in Files |-> IF f \in made THEN Made(f) ELSE Absent],
   objects |-> [f \in Files |-> IF f \in made /\ f \in with THEN 1 ELSE Absent]]

\* The sysroot is built; of the user's modules none are, or all, with or without their object files.
Starts ==
  {Store(SysrootFiles, SysrootFiles)}
  \cup {Store(SysrootFiles \cup {File("user", lib), File("user", base)}, SysrootFiles \cup w) :
          w \in {{}, {File("user", lib), File("user", base)}}}

Tasks ==
  [p \in Processes |-> IF p = builder
     THEN {[file |-> File("user", n), library |-> TRUE] : n \in {lib, base}}
     ELSE {[file |-> File("user", app), library |-> FALSE]}]
TwiceAndOnce == [p \in Processes |-> IF p = builder THEN 2 ELSE 1]

Changes ==
  [f \in Files |-> CASE f = File("user", base) -> {2, 3} [] f \in UserFiles -> {2} [] OTHER -> {}]
=============================================================================
