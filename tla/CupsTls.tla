------------------------------- MODULE CupsTls -------------------------------
(***************************************************************************)
(* The TLS identity of CUPS: the pair of files that the setup script       *)
(* installs (setup-cups-live-from-pi.nu), the links that make CUPS use it  *)
(* for every address, and the watcher that repairs it (lib/cups-tls.nu,    *)
(* watch-cups-tls-identity-from-pi.nu) while addresses come and go.        *)
(*                                                                         *)
(* CUPS is external.  It reads the credentials of a connection from the    *)
(* files of the address that the client reached; without them it makes a   *)
(* pair of its own for the address if that is in Minting, and falls back   *)
(* to the pair of the host name if not.  A certificate whose key does not  *)
(* belong to it serves nobody.                                             *)
(***************************************************************************)
EXTENDS Naturals

CONSTANTS
  Addresses,   \* that the host may have, its names included
  Minting,     \* those for which CUPS would make a pair of its own
  Installers,  \* who installs the pair: "watcher", "setup"
  InitialCovers, InitialKeys,  \* what the first certificate may cover, and its key
  MaxChanges,  \* how often the addresses change
  MaxStops,    \* how often CUPS is stopped
  MaxSetups,   \* how often the setup is run
  MaxCuts      \* how often an installer is cut off

ASSUME TlsAssumption ==
  /\ Minting \subseteq Addresses
  /\ Installers \subseteq {"watcher", "setup"}
  /\ InitialCovers \subseteq SUBSET Addresses /\ InitialKeys \subseteq {0, 1}
  /\ {MaxChanges, MaxStops, MaxSetups, MaxCuts} \subseteq Nat

VARIABLES
  identity,                        \* the addresses of the host
  up,                              \* does CUPS run?
  cert,                            \* the managed certificate: its pair, what it covers
  key,                             \* the pair of the managed key, 0 if there is none
  links,                           \* the addresses linked to the managed files
  minted,                          \* the addresses with files that CUPS made
  pc, seen, made,                  \* of an installer: its place, the identity it read,
                                   \* the pair it made
  pairs,                           \* how many pairs were made
  changes, stops, setups, cuts

files == <<cert, key, links, minted, pairs>>
installers == <<pc, seen, made>>
counts == <<changes, stops, setups, cuts>>
tlsVars == <<identity, up, files, installers, counts>>

Init ==
  /\ identity \in SUBSET Addresses
  /\ up \in BOOLEAN
  /\ cert \in [pair : {1}, covers : InitialCovers] /\ key \in InitialKeys /\ pairs = 1
  /\ links \in SUBSET Addresses /\ minted \in SUBSET (Minting \ links)
  /\ pc = [i \in Installers |-> "idle"]
  /\ seen = [i \in Installers |-> {}]
  /\ made = [i \in Installers |-> 0]
  /\ changes = 0 /\ stops = 0 /\ setups = 0 /\ cuts = 0

-----------------------------------------------------------------------------
(* What CUPS serves *)

PairMatches == cert.pair = key

\* certificate-covers-identity: other names in the certificate do no harm.
certificate_covers_identity(certificate, names) == names \subseteq certificate.covers

\* cups-serves-tls-identity, when no address fails to answer.
cups_serves_tls_identity ==
  /\ certificate_covers_identity(cert, identity)
  /\ \A a \in identity : a \in links \/ a \notin Minting

\* served-cups-tls-certificate throws on an address that does not.
Answers == up /\ key # 0 /\ PairMatches

\* The watcher's verification holds.
Served == Answers /\ cups_serves_tls_identity

\* A client connects over an address without files, or to a host without a key.
Connect ==
  /\ up
  /\ \/ \E a \in (identity \cap Minting) \ (links \cup minted) :
          minted' = minted \cup {a} /\ UNCHANGED <<cert, key, pairs>>
     \/ /\ key = 0
        /\ pairs' = pairs + 1
        /\ cert' = [pair |-> pairs', covers |-> {}]
        /\ key' = pairs'
        /\ UNCHANGED minted
  /\ UNCHANGED <<identity, up, links, installers, counts>>

-----------------------------------------------------------------------------
(* The installers *)

Goto(i, place) == pc' = [pc EXCEPT ![i] = place]

Step(i, from, to) ==
  /\ pc[i] = from
  /\ Goto(i, to)
  /\ UNCHANGED <<identity, up, counts>>

\* repair-if-certificate-is-stale: a verification that throws ends the watcher,
\* which systemd starts again; one that fails begins a repair.
Watch ==
  /\ "watcher" \in Installers
  /\ Answers /\ ~cups_serves_tls_identity
  /\ Step("watcher", "idle", "read")
  /\ UNCHANGED <<files, seen, made>>

\* An activation, or a --repair-tls-only by hand; neither takes the watcher's lock.
RunSetup ==
  /\ "setup" \in Installers /\ pc["setup"] = "idle"
  /\ setups < MaxSetups
  /\ setups' = setups + 1
  /\ Goto("setup", "read")
  /\ UNCHANGED <<identity, up, files, seen, made, changes, stops, cuts>>

\* Mutant: a certificate is kept only if it covers nothing else.
ReadExactly(i) ==
  /\ Step(i, "read", IF key # 0 /\ cert.covers = identity THEN "link" ELSE "certificate")
  /\ seen' = [seen EXCEPT ![i] = identity]
  /\ UNCHANGED <<files, made>>

\* install-cups-tls-certificate keeps a certificate that covers the identity and
\* has a key, whether or not it is its key.
Read(i) ==
  /\ Step(i, "read", IF key # 0 /\ certificate_covers_identity(cert, identity)
                     THEN "link" ELSE "certificate")
  /\ seen' = [seen EXCEPT ![i] = identity]
  /\ UNCHANGED <<files, made>>

\* Mutant: the key of the new pair is not installed.
InstallNoKey(i) ==
  /\ Step(i, "certificate", "link")
  /\ pairs' = pairs + 1
  /\ cert' = [pair |-> pairs', covers |-> seen[i]]
  /\ UNCHANGED <<key, links, minted, seen, made>>

\* generate-cups-tls-certificate installs the certificate of a new pair ...
InstallCertificate(i) ==
  /\ Step(i, "certificate", "key")
  /\ pairs' = pairs + 1
  /\ made' = [made EXCEPT ![i] = pairs']
  /\ cert' = [pair |-> pairs', covers |-> seen[i]]
  /\ UNCHANGED <<key, links, minted, seen>>

\* ... and then its key.
InstallKey(i) ==
  /\ Step(i, "key", "link")
  /\ key' = made[i]
  /\ UNCHANGED <<cert, links, minted, pairs, seen, made>>

\* Mutant: the files that CUPS made for a name stay beside its link.
LinkBeside(i) ==
  /\ Step(i, "link", "remove")
  /\ links' = links \cup seen[i]
  /\ UNCHANGED <<cert, key, minted, pairs, seen, made>>

\* Mutant: names that have files already are not linked.
LinkMissing(i) ==
  /\ Step(i, "link", "remove")
  /\ links' = links \cup (seen[i] \ minted)
  /\ UNCHANGED <<cert, key, minted, pairs, seen, made>>

\* link-cups-tls-credentials replaces what CUPS made for a name of the identity ...
LinkNames(i) ==
  /\ Step(i, "link", "remove")
  /\ links' = links \cup seen[i]
  /\ minted' = minted \ seen[i]
  /\ UNCHANGED <<cert, key, pairs, seen, made>>

\* ... and deletes everything else.
RemoveOthers(i) ==
  /\ Step(i, "remove", "idle")
  /\ links' = links \cap seen[i]
  /\ minted' = minted \cap seen[i]
  /\ UNCHANGED <<cert, key, pairs, seen, made>>

Cut(i) ==
  /\ pc[i] # "idle"
  /\ cuts < MaxCuts
  /\ cuts' = cuts + 1
  /\ Goto(i, "idle")
  /\ UNCHANGED <<identity, up, files, seen, made, changes, stops, setups>>

InstallerStep(i) ==
  \/ Read(i) \/ InstallCertificate(i) \/ InstallKey(i) \/ LinkNames(i) \/ RemoveOthers(i)

-----------------------------------------------------------------------------
(* The host *)

AddressesChange ==
  /\ changes < MaxChanges
  /\ changes' = changes + 1
  /\ identity' \in SUBSET Addresses
  /\ UNCHANGED <<up, files, installers, stops, setups, cuts>>

CupsStops ==
  /\ up /\ stops < MaxStops
  /\ up' = FALSE
  /\ stops' = stops + 1
  /\ UNCHANGED <<identity, files, installers, changes, setups, cuts>>

CupsStarts ==
  /\ ~up
  /\ up' = TRUE
  /\ UNCHANGED <<identity, files, installers, counts>>

Next ==
  \/ Connect \/ Watch \/ RunSetup
  \/ \E i \in Installers : InstallerStep(i) \/ Cut(i)
  \/ AddressesChange \/ CupsStops \/ CupsStarts

Spec == Init /\ [][Next]_tlsVars

\* The watcher runs for ever and what was started goes on; CUPS comes back, and
\* somebody connects to it, the watcher at least.
Fairness ==
  /\ WF_tlsVars(Watch) /\ WF_tlsVars(CupsStarts) /\ WF_tlsVars(Connect)
  /\ \A i \in Installers : WF_tlsVars(InstallerStep(i))

FairSpec == Spec /\ Fairness

-----------------------------------------------------------------------------
(* Properties *)

\* Every variable has its type; a name is linked to the managed files or has
\* files of its own, and a key belongs to a pair that was made.
TypeOK ==
  /\ identity \subseteq Addresses /\ up \in BOOLEAN
  /\ cert \in [pair : 1..pairs, covers : SUBSET Addresses] /\ key \in 0..pairs
  /\ links \subseteq Addresses /\ minted \subseteq Minting /\ links \cap minted = {}
  /\ pc \in [Installers -> {"idle", "read", "certificate", "key", "link", "remove"}]
  /\ seen \in [Installers -> SUBSET Addresses] /\ made \in [Installers -> 0..pairs]
  /\ changes \in 0..MaxChanges /\ stops \in 0..MaxStops
  /\ setups \in 0..MaxSetups /\ cuts \in 0..MaxCuts

\* The watcher alone, if it is not cut off, leaves a certificate and a key of one
\* pair behind, so that CUPS can serve them (generate-cups-tls-certificate).
OnePair ==
  (cuts = 0 /\ setups = 0 /\ key # 0 /\ \A i \in Installers : pc[i] # "key") => PairMatches

\* A certificate that clients have pinned is replaced by the watcher only if it
\* lacks an address the host had when the watcher looked: an address that goes
\* away, or goes and comes back, does not cost them their trust
\* (install-cups-tls-certificate).
PinnedStays ==
  [][cert' # cert /\ key # 0 /\ setups = 0 =>
       \E i \in Installers : ~certificate_covers_identity(cert, seen[i])]_tlsVars

\* Once the addresses settle, CUPS serves one certificate that covers them on
\* every one, for good; whoever installed beside the watcher or was cut off, only
\* a pair that was split stays in the way (repair-if-certificate-is-stale).
ServedUnlessSplit == <>[]Served \/ <>[]~PairMatches

\* docs/adr-0001: the watcher "runs that verification and reruns
\* --repair-tls-only when it fails".  Nothing stays in the way.
EventuallyServed == <>[]Served
=============================================================================
