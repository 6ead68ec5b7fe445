---------------------------- MODULE ConfigCommon ----------------------------
(***************************************************************************)
(* What the configurations of client and server share                      *)
(* (pkg/appctl/appctlcommon): optional fields, port bindings, users and    *)
(* the hashing of their passwords.                                         *)
(*                                                                         *)
(* An optional protobuf field is a sequence: << >> when it is not set.     *)
(* Names and passwords are their lengths: there is one of each length, and *)
(* 0 is the empty one.  A duration is a number of seconds, and a text that *)
(* is not a duration is -1, which every check refuses like a small one.    *)
(***************************************************************************)
EXTENDS Integers, Sequences

CONSTANTS
    MaxPort,         \* 65535
    MaxUserNameLen,  \* constant.MaxUserNameLen, 64
    MaxPasswordLen   \* 64

ASSUME ConfigAssumption == {MaxPort, MaxUserNameLen, MaxPasswordLen} \subseteq Nat

Get(field, default) == IF field = << >> THEN default ELSE field[1]

\* The field of dst, replaced by the one of src if that is set.
Override(dst, src) == IF src # << >> THEN src ELSE dst

ValidMTU(mtu) == mtu = 0 \/ mtu \in 1280 .. 1500

-----------------------------------------------------------------------------
(* Port bindings: a protocol with a port, or, if the port is not set (0),  *)
(* with a range.  A range that does not have the form number-number is     *)
(* << >>.                                                                  *)

ValidPort(port) == port \in 1 .. MaxPort

ValidBindingAnyOrder(binding) ==
    /\ binding.protocol \in {"TCP", "UDP"}
    /\ \/ binding.port # 0 /\ ValidPort(binding.port)
       \/ /\ binding.port = 0 /\ binding.range # << >>
          /\ ValidPort(binding.range[1]) /\ ValidPort(binding.range[2])

ValidBinding(binding) ==
    /\ ValidBindingAnyOrder(binding)
    /\ binding.port # 0 \/ binding.range[1] <= binding.range[2]

BindingPorts(binding) ==
    IF binding.port # 0 THEN {binding.port} ELSE binding.range[1] .. binding.range[2]

ValidPortBindings(bindings) == \A i \in DOMAIN bindings : ValidBinding(bindings[i])

\* The endpoints that valid bindings stand for; the code returns them
\* sorted and without duplicates.
FlatPortBindings(bindings) ==
    UNION {{bindings[i].protocol} \X BindingPorts(bindings[i]) : i \in DOMAIN bindings}

-----------------------------------------------------------------------------
(* Users: [name, password, hashed, quotas], where quotas is a set of pairs *)
(* <<days, megabytes>>.                                                    *)

\* Distinct passwords or names have distinct hashes.
HashPassword(password, name) == <<password, name>>

HashUserPassword(user, keepPlaintext) ==
    IF user.password = 0 THEN user
    ELSE [user EXCEPT !.hashed = HashPassword(user.password, user.name),
                      !.password = IF keepPlaintext THEN @ ELSE 0]

\* What both ends ask of a user.
ValidIdentity(user) ==
    /\ user.name # 0
    /\ user.password # 0 \/ user.hashed # << >>
    /\ user.name <= MaxUserNameLen
    /\ user.password <= MaxPasswordLen

\* The key material of a user: the hashed password if there is one.
Credential(user) ==
    IF user.hashed # << >> THEN user.hashed ELSE HashPassword(user.password, user.name)

=============================================================================
