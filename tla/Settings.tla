------------------------------ MODULE Settings ------------------------------
(***************************************************************************)
(* From the process environment to what the enclave runs with              *)
(* (src/runtime/src/main.rs, keys/mod.rs): settings are given, blank or    *)
(* unset; a production binary has none of the testing ones; each is read   *)
(* where it is needed, in the order of run(), and a combination that       *)
(* cannot mean what it appears to stops the process there.                 *)
(*                                                                         *)
(* The environment is whoever starts the process: a setting takes any of   *)
(* its values when it is first read.  A step may also fail for a reason of *)
(* its own (a device, the network, the store).                             *)
(***************************************************************************)
EXTENDS Naturals

CONSTANTS Services,     \* the runtime's own services a testing build can move
          Push,         \* the one of them that takes wake signals
          Ports         \* ports their URLs name, 0 when a URL names none

(* The service that takes wake signals is one of them.                     *)
SettingsAssumption == Push \in Services

VARIABLES build,        \* "production" or "testing"
          at,           \* the step of run()
          cli,          \* the settings, as they were given
          testing,      \* the testing settings, as they were given
          runs          \* what the enclave runs with, as far as it is decided

vars == <<build, at, cli, testing, runs>>

Given == {"unset", "blank", "value"}
NoUrl(given) == [given |-> given, scheme |-> "http", port |-> 0]
Url == {NoUrl("unset"), NoUrl("blank")} \cup
       [given : {"value"}, scheme : {"http", "https"}, port : Ports]

(* Option::is_some, and nonempty: blank is how a layer of the image says   *)
(* that it does not want a setting.                                        *)
IsSome(v) == v # "unset"
Nonempty(v) == v \notin {"unset", "blank"}

(***************************************************************************)
(* The settings of every build, those of a testing build alone, and the    *)
(* values a production enclave runs with in their place.                   *)
(***************************************************************************)
Cli == [kms_key_id : Given, parameter : Given, rp_id : Given, origins : Given, push_app : Given]

Testing ==
  [keys : {"kms", "static"}, master_key : Given, receipts : {"required", "unsigned"},
   clock : {"ptp", "auto", "host"}, random : {"nsm", "auto", "host"}, cosign : BOOLEAN,
   urls : [Services -> Url]]

Production ==
  [keys |-> "kms", master_key |-> "unset", receipts |-> "required", clock |-> "ptp",
   random |-> "nsm", cosign |-> FALSE, urls |-> [s \in Services |-> NoUrl("unset")]]

(* Cli::parse: the testing settings are arguments of a testing binary; in  *)
(* a production one they are skipped and production() stands for them.     *)
Parsed(field, v) == IF build = "testing" THEN v ELSE Production[field]

Init ==
  /\ build \in {"production", "testing"} /\ at = "clock"
  /\ cli = [f \in {"kms_key_id", "parameter", "rp_id", "origins", "push_app"} |-> "unread"]
  /\ testing \in {[Production EXCEPT !.urls = [s \in Services |-> Parsed("urls", u)[s]]] :
                    u \in [Services -> Url]}
  /\ runs = [clock |-> "none", random |-> "none", signer |-> "none", keys |-> "none",
             receipts |-> "none", closed |-> {}, host |-> FALSE, gate |-> FALSE,
             push |-> "off"]

Goto(from, to) == at = from /\ at' = to
Keep(f, v) == testing' = [testing EXCEPT ![f] = Parsed(f, v)]

(***************************************************************************)
(* run(), in its order.  The clock and the entropy source open (module     *)
(* Clock, module Entropy): a required device that does not open refuses.   *)
(***************************************************************************)
Opened(asked, device, opens) ==
  CASE asked = "host" -> "host"
    [] asked # "host" /\ opens -> device
    [] asked = "auto" /\ ~opens -> "host"
    [] OTHER -> "none"

OpenClock ==
  /\ at = "clock"
  /\ \E v \in {"ptp", "auto", "host"}, opens \in BOOLEAN :
       LET c == Opened(Parsed("clock", v), "ptp", opens) IN
       /\ Keep("clock", v)
       /\ runs' = [runs EXCEPT !.clock = c]
       /\ at' = IF c = "none" THEN "refused" ELSE "entropy"
  /\ UNCHANGED <<build, cli>>

OpenEntropy ==
  /\ at = "entropy"
  /\ \E v \in {"nsm", "auto", "host"}, opens \in BOOLEAN :
       LET r == Opened(Parsed("random", v), "nsm", opens) IN
       /\ Keep("random", v)
       /\ runs' = [runs EXCEPT !.random = r]
       /\ at' = IF r = "none" THEN "refused" ELSE "cosign"
  /\ UNCHANGED <<build, cli>>

(* cosign: a production binary has no such code.  HostEntropy attests      *)
(* nothing, and wrapping it asks it for nothing.                           *)
Cosign ==
  /\ \E v \in BOOLEAN :
       /\ Keep("cosign", v)
       /\ runs' = [runs EXCEPT !.signer =
                     IF build = "testing" /\ v THEN "minted" ELSE runs.random]
  /\ \/ Goto("cosign", "keys")
     \/ Goto("cosign", "done")          \* --self-check ends here
  /\ UNCHANGED <<build, cli>>

(* open_key_source: refuses a key that would come from two places.         *)
KeySourceGuessed(kind, master_key, kms_key_id, parameter) ==   \* mutant
  IF kind = "static" THEN master_key = "value" ELSE IsSome(kms_key_id) /\ IsSome(parameter)
KeySource(kind, master_key, kms_key_id, parameter) ==
  IF kind = "static"
    THEN ~IsSome(kms_key_id) /\ ~IsSome(parameter) /\ master_key = "value"
    ELSE ~IsSome(master_key) /\ IsSome(kms_key_id) /\ IsSome(parameter)

OpenKeySource ==
  /\ at = "keys"
  /\ \E kind \in {"kms", "static"}, mk, id, p \in Given :
       LET k == Parsed("keys", kind)   m == Parsed("master_key", mk) IN
       /\ testing' = [testing EXCEPT !.keys = k, !.master_key = m]
       /\ cli' = [cli EXCEPT !.kms_key_id = id, !.parameter = p]
       /\ runs' = [runs EXCEPT !.keys = k]
       /\ at' = IF KeySource(k, m, id, p) THEN "boot" ELSE "refused"
  /\ UNCHANGED build

(* The store, the guest, the boot: module Boot.  KMS answers no request    *)
(* that names a blank key, nothing answers at a blank URL, and the guest   *)
(* cannot be measured where the kernel stands in for the NSM.              *)
Boot ==
  /\ at = "boot"
  /\ \E v \in {"required", "unsigned"} :
       /\ Keep("receipts", v)
       /\ runs' = [runs EXCEPT !.receipts = Parsed("receipts", v)]
  /\ at' \in {"refused"} \cup
       (IF /\ runs.random = "nsm"
           /\ runs.keys = "kms" => Nonempty(cli.kms_key_id) /\ Nonempty(cli.parameter)
          THEN {"host"} ELSE {})
  /\ UNCHANGED <<build, cli>>

(* open_dev_host: guests of a testing build reach the emulator's host, but *)
(* for the ports the runtime's own services are configured at.             *)
PortOf(url) ==
  IF url.port # 0 THEN url.port ELSE IF url.scheme = "https" THEN 443 ELSE 80

OpenDevHost ==
  /\ at = "host"
  /\ LET given == {s \in Services : IsSome(testing.urls[s].given)} IN
     IF \E s \in given : testing.urls[s].given = "blank"
       THEN at' = "refused" /\ UNCHANGED runs
       ELSE /\ at' = "gate"
            /\ runs' = [runs EXCEPT !.host = (build = "testing"),
                                    !.closed = {PortOf(testing.urls[s]) : s \in given}]
  /\ UNCHANGED <<build, cli, testing>>

(* A relying party turns authentication on; origins without one refuse.    *)
Gate(rp, origins) == Nonempty(rp) \/ ~Nonempty(origins)

Authentication ==
  /\ at = "gate"
  /\ \E rp, o \in Given :
       /\ cli' = [cli EXCEPT !.rp_id = rp, !.origins = o]
       /\ runs' = [runs EXCEPT !.gate = Nonempty(rp)]
       /\ at' = IF Gate(rp, o) THEN "notify" ELSE "refused"
  /\ UNCHANGED <<build, testing>>

(* notify_settings, and the credentials a stub is signed for with.         *)
Notify ==
  /\ at = "notify"
  /\ \E app \in Given :
       /\ cli' = [cli EXCEPT !.push_app = app]
       /\ LET url == testing.urls[Push] IN
          /\ runs' = [runs EXCEPT !.push = CASE ~Nonempty(app) -> "off"
                                             [] Nonempty(app) /\ Nonempty(url.given) -> "stub"
                                             [] OTHER -> "role"]
          /\ at' = IF Nonempty(url.given) /\ ~Nonempty(app) THEN "refused" ELSE "serving"
  /\ UNCHANGED <<build, testing>>

Next == OpenClock \/ OpenEntropy \/ Cosign \/ OpenKeySource \/ Boot \/ OpenDevHost
          \/ Authentication \/ Notify
Spec == Init /\ [][Next]_vars

(***************************************************************************)
(* Properties.                                                             *)
(***************************************************************************)

(* Whatever the environment says, a production binary that serves has its  *)
(* key from KMS, its time from the PTP clock, its randomness and its       *)
(* attestations from the NSM, checks the signatures of receipts, signs as  *)
(* the instance's role and opens no host to its guests: Testing::          *)
(* production and the cfg'd definitions of main.rs.                        *)
ProductionIsSealed ==
  at = "serving" /\ build = "production" =>
    /\ runs.clock = "ptp" /\ runs.random = "nsm" /\ runs.signer = "nsm"
    /\ runs.keys = "kms" /\ runs.receipts = "required"
    /\ ~runs.host /\ runs.push # "stub"

(* Where an emulator's host is open to guests, the port of every service   *)
(* of the runtime's own on it is closed, also when its URL leaves the port *)
(* to the scheme: open_dev_host.                                           *)
OwnServicesClosed ==
  at = "serving" /\ runs.host =>
    \A s \in Services : Nonempty(testing.urls[s].given) =>
      \E p \in runs.closed :
        p = CASE testing.urls[s].port # 0 -> testing.urls[s].port
              [] testing.urls[s].port = 0 /\ testing.urls[s].scheme = "http" -> 80
              [] OTHER -> 443

(* No enclave serves on a setting that was given and taken for another or  *)
(* dropped: a key from configuration beside KMS, an origin without a       *)
(* relying party, a push endpoint without an application.                  *)
NothingDropped ==
  at = "serving" =>
    /\ IsSome(testing.master_key) => runs.keys = "static"
    /\ IsSome(cli.kms_key_id) \/ IsSome(cli.parameter) => runs.keys = "kms"
    /\ Nonempty(cli.origins) => runs.gate
    /\ Nonempty(testing.urls[Push].given) => runs.push = "stub"

(* No combination of settings serves unsealed in production, opens a       *)
(* service of the runtime's own or is dropped silently (run, Testing,      *)
(* open_dev_host).                                                         *)
SettingsHold ==
  /\ ProductionIsSealed
  /\ OwnServicesClosed
  /\ NothingDropped

=============================================================================
