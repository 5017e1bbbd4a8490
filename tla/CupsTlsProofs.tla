--------------------------- MODULE CupsTlsProofs ---------------------------
(***************************************************************************)
(* Theorems about the TLS identity of CUPS, for any addresses, any first   *)
(* certificate and any number of changes, stops, setups and cuts.          *)
(***************************************************************************)
EXTENDS CupsTls, TLAPS

\* The type invariant in parts.
FileTypes ==
  /\ pairs \in Nat \ {0}
  /\ cert \in [pair : 1..pairs, covers : SUBSET Addresses] /\ key \in 0..pairs
  /\ links \subseteq Addresses /\ minted \subseteq Minting /\ links \cap minted = {}

HostTypes == identity \subseteq Addresses /\ up \in BOOLEAN

InstallerTypes ==
  /\ pc \in [Installers -> {"idle", "read", "certificate", "key", "link", "remove"}]
  /\ seen \in [Installers -> SUBSET Addresses] /\ made \in [Installers -> 0..pairs]

CountTypes ==
  /\ changes \in 0..MaxChanges /\ stops \in 0..MaxStops
  /\ setups \in 0..MaxSetups /\ cuts \in 0..MaxCuts

Typed == FileTypes /\ HostTypes /\ InstallerTypes /\ CountTypes

\* More pairs allow more.
LEMMA MorePairs ==
  ASSUME FileTypes, InstallerTypes, pairs' = pairs + 1
  PROVE  /\ 1..pairs \subseteq 1..pairs' /\ 0..pairs \subseteq 0..pairs'
         /\ pairs' \in 1..pairs' /\ pairs' \in Nat \ {0}
         /\ made \in [Installers -> 0..pairs']
<1>1. pairs \in Nat
  BY DEF FileTypes
<1>2. 1..pairs \subseteq 1..(pairs + 1) /\ 0..pairs \subseteq 0..(pairs + 1)
  BY <1>1
<1>3. pairs + 1 \in 1..(pairs + 1) /\ pairs + 1 \in Nat \ {0}
  BY <1>1
<1> QED
  BY <1>2, <1>3 DEF InstallerTypes

\* Every step keeps the types.
LEMMA TypesKept ==
  ASSUME Typed, [Next]_tlsVars
  PROVE  Typed'
<1> USE TlsAssumption DEF Typed
<1>1. MaxChanges \in Nat /\ MaxStops \in Nat /\ MaxSetups \in Nat /\ MaxCuts \in Nat
  OBVIOUS
<1>2. CASE UNCHANGED tlsVars
  BY <1>2 DEF tlsVars, files, installers, counts, FileTypes, HostTypes, InstallerTypes,
     CountTypes
<1>3. CASE Connect
  <2>1. HostTypes' /\ CountTypes'
    BY <1>3 DEF Connect, counts, HostTypes, CountTypes
  <2>2. ASSUME NEW a \in (identity \cap Minting) \ (links \cup minted),
               minted' = minted \cup {a}, UNCHANGED <<cert, key, pairs>>
        PROVE  FileTypes' /\ InstallerTypes'
    BY <1>3, <2>2 DEF Connect, installers, FileTypes, InstallerTypes
  <2>3. ASSUME pairs' = pairs + 1, cert' = [pair |-> pairs', covers |-> {}],
               key' = pairs', UNCHANGED minted
        PROVE  FileTypes' /\ InstallerTypes'
    <3>1. cert' \in [pair : 1..pairs', covers : SUBSET Addresses] /\ key' \in 0..pairs'
      BY <2>3, MorePairs
    <3> QED
      BY <1>3, <2>3, <3>1, MorePairs DEF Connect, installers, FileTypes, InstallerTypes
  <2> QED
    BY <1>3, <2>1, <2>2, <2>3 DEF Connect
<1>4. CASE Watch
  BY <1>4 DEF Watch, Step, Goto, files, counts, FileTypes, HostTypes, InstallerTypes, CountTypes
<1>5. CASE RunSetup
  <2>1. CountTypes'
    BY <1>1, <1>5 DEF RunSetup, CountTypes
  <2> QED
    BY <1>5, <2>1 DEF RunSetup, Goto, files, FileTypes, HostTypes, InstallerTypes
<1>6. ASSUME NEW i \in Installers, Read(i) PROVE Typed'
  <2>1. InstallerTypes'
    BY <1>6 DEF Read, Step, Goto, files, InstallerTypes, HostTypes
  <2> QED
    BY <1>6, <2>1 DEF Read, Step, files, counts, FileTypes, HostTypes, CountTypes
<1>7. ASSUME NEW i \in Installers, InstallCertificate(i) PROVE Typed'
  <2>1. pairs' = pairs + 1 /\ cert' = [pair |-> pairs', covers |-> seen[i]]
    BY <1>7 DEF InstallCertificate
  <2>2. cert' \in [pair : 1..pairs', covers : SUBSET Addresses] /\ key' \in 0..pairs'
    BY <1>7, <2>1, MorePairs DEF InstallCertificate, InstallerTypes, FileTypes
  <2>3. made' \in [Installers -> 0..pairs']
    BY <1>7, <2>1, MorePairs DEF InstallCertificate
  <2> QED
    BY <1>7, <2>1, <2>2, <2>3, MorePairs DEF InstallCertificate, Step, Goto, counts,
       FileTypes, HostTypes, InstallerTypes, CountTypes
<1>8. ASSUME NEW i \in Installers, InstallKey(i) PROVE Typed'
  BY <1>8 DEF InstallKey, Step, Goto, counts, FileTypes, HostTypes, InstallerTypes, CountTypes
<1>9. ASSUME NEW i \in Installers, LinkNames(i) PROVE Typed'
  <2>1. FileTypes'
    BY <1>9 DEF LinkNames, FileTypes, InstallerTypes
  <2> QED
    BY <1>9, <2>1 DEF LinkNames, Step, Goto, counts, HostTypes, InstallerTypes, CountTypes
<1>10. ASSUME NEW i \in Installers, RemoveOthers(i) PROVE Typed'
  <2>1. FileTypes'
    BY <1>10 DEF RemoveOthers, FileTypes, InstallerTypes
  <2> QED
    BY <1>10, <2>1 DEF RemoveOthers, Step, Goto, counts, HostTypes, InstallerTypes, CountTypes
<1>11. ASSUME NEW i \in Installers, Cut(i) PROVE Typed'
  <2>1. CountTypes'
    BY <1>1, <1>11 DEF Cut, CountTypes
  <2> QED
    BY <1>11, <2>1 DEF Cut, Goto, files, FileTypes, HostTypes, InstallerTypes
<1>12. CASE AddressesChange
  <2>1. CountTypes'
    BY <1>1, <1>12 DEF AddressesChange, CountTypes
  <2> QED
    BY <1>12, <2>1 DEF AddressesChange, files, installers, FileTypes, HostTypes, InstallerTypes
<1>13. CASE CupsStops
  <2>1. CountTypes'
    BY <1>1, <1>13 DEF CupsStops, CountTypes
  <2> QED
    BY <1>13, <2>1 DEF CupsStops, files, installers, FileTypes, HostTypes, InstallerTypes
<1>14. CASE CupsStarts
  BY <1>14 DEF CupsStarts, files, installers, counts, FileTypes, HostTypes, InstallerTypes,
     CountTypes
<1> QED
  BY <1>2, <1>3, <1>4, <1>5, <1>6, <1>7, <1>8, <1>9, <1>10, <1>11, <1>12, <1>13, <1>14
  DEF Next, InstallerStep

\* They hold at first.
LEMMA TypesInit == Init => Typed
  BY TlsAssumption DEF Init, Typed, FileTypes, HostTypes, InstallerTypes, CountTypes

\* The type invariant, for any constants.
THEOREM TypeCorrect == Spec => []TypeOK
<1>1. Typed => TypeOK
  BY DEF Typed, FileTypes, HostTypes, InstallerTypes, CountTypes, TypeOK
<1> QED
  BY <1>1, TypesInit, TypesKept, PTL DEF Spec

-----------------------------------------------------------------------------
(* The watcher alone *)

\* While no setup runs only the watcher installs, and it began because CUPS
\* answered, so there is a key; it makes a pair only if the certificate lacks an
\* address it has seen.
Alone ==
  setups = 0 =>
    /\ \A i \in Installers : i # "watcher" => pc[i] = "idle"
    /\ key = 0 => \A i \in Installers : pc[i] = "idle"
    /\ \A i \in Installers :
         /\ pc[i] = "certificate" => ~certificate_covers_identity(cert, seen[i])
         /\ pc[i] = "key" => made[i] # 0

\* If it is not cut off, what it installs is one pair.
Whole ==
  setups = 0 /\ cuts = 0 =>
    /\ \A i \in Installers : pc[i] = "key" => made[i] = cert.pair
    /\ key # 0 /\ (\A i \in Installers : pc[i] # "key") => PairMatches

\* Both hold at first: the first certificate comes with its key or with none.
LEMMA AloneInit == Init => Alone /\ Whole
<1> SUFFICES ASSUME Init PROVE Alone /\ Whole
  OBVIOUS
<1>1. cert.pair = 1 /\ key \in {0, 1}
  BY TlsAssumption DEF Init
<1> QED
  BY <1>1 DEF Init, Alone, Whole, PairMatches

\* Both are kept.
LEMMA AloneKept ==
  ASSUME Typed, Alone, Whole, [Next]_tlsVars
  PROVE  Alone' /\ Whole'
<1> USE DEF Typed, InstallerTypes
<1>0. setups \in Nat /\ cuts \in Nat
  BY TlsAssumption DEF CountTypes
<1>1. CASE UNCHANGED tlsVars
  BY <1>1 DEF tlsVars, files, installers, counts, Alone, Whole, PairMatches,
     certificate_covers_identity
<1>2. CASE Connect
  <2>1. CASE UNCHANGED <<cert, key>>
    BY <1>2, <2>1 DEF Connect, installers, counts, Alone, Whole, PairMatches,
       certificate_covers_identity
  <2>2. CASE key = 0 /\ cert' = [pair |-> pairs', covers |-> {}] /\ key' = pairs'
    BY <1>2, <2>2 DEF Connect, installers, counts, Alone, Whole, PairMatches
  <2> QED
    BY <1>2, <2>1, <2>2 DEF Connect
<1>3. CASE Watch
  BY <1>3 DEF Watch, Answers, Step, Goto, files, counts, Alone, Whole, PairMatches,
     certificate_covers_identity
<1>4. CASE RunSetup
  BY <1>0, <1>4 DEF RunSetup, Alone, Whole
<1>5. ASSUME NEW i \in Installers, Read(i) PROVE Alone' /\ Whole'
  <2>1. setups = 0 => i = "watcher" /\ key # 0
    BY <1>5 DEF Read, Step, Alone
  <2>2. Alone'
    BY <1>5, <2>1 DEF Read, Step, Goto, files, counts, Alone, certificate_covers_identity
  <2>3. Whole'
    BY <1>5 DEF Read, Step, Goto, files, counts, Whole, PairMatches
  <2> QED
    BY <2>2, <2>3
<1>6. ASSUME NEW i \in Installers, InstallCertificate(i) PROVE Alone' /\ Whole'
  <2>1. setups = 0 => i = "watcher" /\ key # 0
    BY <1>6 DEF InstallCertificate, Step, Alone
  <2>4. pairs' # 0
    BY <1>6 DEF InstallCertificate, FileTypes
  <2>2. Alone'
    BY <1>6, <2>1, <2>4 DEF InstallCertificate, Step, Goto, counts, Alone
  <2>3. Whole'
    BY <1>6, <2>1, <2>2 DEF InstallCertificate, Step, Goto, counts, Alone, Whole
  <2> QED
    BY <2>2, <2>3
<1>7. ASSUME NEW i \in Installers, InstallKey(i) PROVE Alone' /\ Whole'
  <2>1. setups = 0 => i = "watcher" /\ key # 0
    BY <1>7 DEF InstallKey, Step, Alone
  <2>2. Alone'
    BY <1>7, <2>1 DEF InstallKey, Step, Goto, counts, Alone, certificate_covers_identity
  <2>3. Whole'
    BY <1>7, <2>1 DEF InstallKey, Step, Goto, counts, Alone, Whole, PairMatches
  <2> QED
    BY <2>2, <2>3
<1>8. ASSUME NEW i \in Installers, LinkNames(i) \/ RemoveOthers(i) PROVE Alone' /\ Whole'
  <2>1. setups = 0 => i = "watcher" /\ key # 0
    BY <1>8 DEF LinkNames, RemoveOthers, Step, Alone
  <2> QED
    BY <1>8, <2>1 DEF LinkNames, RemoveOthers, Step, Goto, counts, Alone, Whole, PairMatches,
       certificate_covers_identity
<1>9. ASSUME NEW i \in Installers, Cut(i) PROVE Alone' /\ Whole'
  <2>1. Alone'
    BY <1>9 DEF Cut, Goto, files, Alone, certificate_covers_identity
  <2> QED
    BY <1>0, <1>9, <2>1 DEF Cut, Whole
<1>10. CASE AddressesChange \/ CupsStops \/ CupsStarts
  BY <1>10 DEF AddressesChange, CupsStops, CupsStarts, files, installers, counts, Alone,
     Whole, PairMatches, certificate_covers_identity
<1> QED
  BY <1>1, <1>2, <1>3, <1>4, <1>5, <1>6, <1>7, <1>8, <1>9, <1>10 DEF Next, InstallerStep

\* The watcher alone leaves a certificate and the key that belongs to it.
THEOREM AlwaysOnePair == Spec => []OnePair
<1>1. Whole => OnePair
  BY DEF Whole, OnePair
<1> QED
  BY <1>1, TypesInit, TypesKept, AloneInit, AloneKept, PTL DEF Spec

\* The watcher replaces a certificate only for an address that it lacks.
THEOREM PinnedAlwaysStays == Spec => PinnedStays
<1>1. ASSUME Typed, Alone, [Next]_tlsVars, cert' # cert, key # 0, setups = 0
      PROVE  \E i \in Installers : ~certificate_covers_identity(cert, seen[i])
  <2>1. \E i \in Installers : InstallCertificate(i)
    BY <1>1 DEF Next, tlsVars, files, Connect, Watch, RunSetup, InstallerStep, Read,
       InstallKey, LinkNames, RemoveOthers, Cut, AddressesChange, CupsStops, CupsStarts
  <2> QED
    BY <1>1, <2>1 DEF InstallCertificate, Step, Alone
<1>2. Typed /\ Alone /\ [Next]_tlsVars
        => [cert' # cert /\ key # 0 /\ setups = 0 =>
              \E i \in Installers : ~certificate_covers_identity(cert, seen[i])]_tlsVars
  BY <1>1
<1> QED
  BY <1>2, TypesInit, TypesKept, AloneInit, AloneKept, PTL DEF Spec, PinnedStays
=============================================================================
