-------------------------- MODULE EncryptionProofs --------------------------
(***************************************************************************)
(* The encryption of content, for any sizes: first who holds which keys    *)
(* (KeySharing), then what a key opens (Framing).                          *)
(***************************************************************************)
EXTENDS KeySharing, Framing, SequenceTheorems, WellFoundedInduction, TLAPS

-----------------------------------------------------------------------------
(***************************************************************************)
(* What KeySharing keeps for any number of users, files and requests, any  *)
(* threshold and any retention.                                            *)
(***************************************************************************)

Role == DOMAIN Ranks

Row == [home : Homes, owner : Users, trash : {"no", "alone", "with folder"},
        encrypted : BOOLEAN, versions : Seq(Nat) \ {<< >>}]

KeyTypeOK ==
    /\ DOMAIN files \subseteq Files
    /\ files \in [DOMAIN files -> Row]
    /\ docs \in [owner : Users, live : BOOLEAN]
    /\ keys \in [Files \X Users -> Nat]
    /\ active \subseteq Shareable \X Users \X Role
    /\ pending \subseteq Shareable \X Users \X Role \X Nat
    /\ minted \in Nat
    /\ requests \in Nat

(* OneGrantEach, told apart by the table state of the two grants: what the *)
(* job needs to know when it turns a pending grant into an active one.     *)
GrantsApart ==
    /\ \A g, h \in active : Names(g, h[1], h[2]) => g = h
    /\ \A g, h \in pending : Names(g, h[1], h[2]) => g = h
    /\ \A g \in active, h \in pending : ~Names(g, h[1], h[2])

KeyInv == KeyTypeOK /\ GrantsApart /\ PlaintextHasNoKeys

(* The steps of ActivationComplete and of KeysOnlyForEntitled.             *)
Activates ==
    \A g \in active' \ active : \A f \in DOMAIN files' :
        /\ g[1] \in Above(f)'
        /\ files'[f].trash = "no" /\ files'[f].encrypted
        => keys'[<<f, g[2]>>] # NoKey

WrapsForEntitled ==
    \A f \in DOMAIN files', u \in Users :
        keys'[<<f, u>>] # keys[<<f, u>>] /\ keys'[<<f, u>>] # NoKey => Entitled(u, f)'

(* What every step is shown to do; requests are counted apart.             *)
KeepsKeys ==
    /\ KeyTypeOK'
    /\ GrantsApart'
    /\ PlaintextHasNoKeys'
    /\ Activates
    /\ WrapsForEntitled

-----------------------------------------------------------------------------
(* Operators.                                                              *)

(* A version list stays one when a version is added and the oldest goes.   *)
LEMMA RetainedType ==
    ASSUME NEW vs \in Seq(Nat), NEW k \in Nat
    PROVE  Retained(Append(vs, k)) \in Seq(Nat) \ {<< >>}
<1> DEFINE a == Append(vs, k)
           m == 1 + (IF Len(a) > Retention THEN 1 ELSE 0)
<1>1. /\ a \in Seq(Nat)
      /\ Len(a) = Len(vs) + 1
      /\ Len(vs) \in Nat
  OBVIOUS
<1>2. m \in 1 .. Len(a)
  BY <1>1, KeyAssumption
<1>3. SubSeq(a, m, Len(a)) \in Seq(Nat)
  <2>1. \A i \in m .. Len(a) : a[i] \in Nat
    BY <1>1, <1>2
  <2>2. m \in Int /\ Len(a) \in Int
    BY <1>1, <1>2
  <2> HIDE DEF a, m
  <2> QED BY <1>1, <1>2, <2>1, <2>2, SubSeqProperties
<1>4. Len(SubSeq(a, m, Len(a))) = Len(a) - m + 1
  <2>2. m \in Int /\ Len(a) \in Int
    BY <1>1, <1>2
  <2> HIDE DEF a, m
  <2> QED BY <1>1, <1>2, <2>2, SubSeqProperties
<1>5. SubSeq(a, m, Len(a)) # << >>
  <2> DEFINE r == SubSeq(a, m, Len(a))
  <2>1. r \in Seq(Nat) /\ Len(r) > 0
    <3> HIDE DEF a, m
    <3> QED BY <1>1, <1>2, <1>3, <1>4
  <2> HIDE DEF r
  <2>2. r # << >>
    BY <2>1
  <2> QED BY <2>2 DEF r
<1> QED BY <1>3, <1>5 DEF Retained

(* The current version of a file is a key number.                          *)
LEMMA CurrentType ==
    ASSUME KeyTypeOK, NEW f \in DOMAIN files
    PROVE  Current(f) \in Nat
<1>1. files[f].versions \in Seq(Nat) /\ files[f].versions # << >>
  BY DEF KeyTypeOK, Row
<1> DEFINE vs == files[f].versions
<1>2. Len(vs) \in 1 .. Len(vs)
  <2> HIDE DEF vs
  <2>1. vs \in Seq(Nat) /\ vs # << >>
    BY <1>1 DEF vs
  <2> QED BY <2>1
<1> QED BY <1>1, <1>2 DEF Current, Last

(* A grant on n is above exactly the files under n.                        *)
LEMMA AboveUnder ==
    ASSUME KeyTypeOK, NEW n \in Shareable, NEW f \in DOMAIN files
    PROVE  n \in Above(f) <=> f \in Under(n)
BY KeyAssumption DEF KeyTypeOK, Shareable, Above, Under

(* The owner of a folder that is filled is a user.                         *)
LEMMA HomeOwnerType ==
    ASSUME KeyTypeOK, NEW home \in Homes
    PROVE  HomeOwner(home) \in Users
BY DEF KeyTypeOK, Homes, HomeOwner

-----------------------------------------------------------------------------
(* Content.                                                                *)

(* Storing a version wraps a key for nobody but the owner.                 *)
LEMMA StoreKeeps ==
    ASSUME KeyInv, NEW u \in Users, NEW f \in DOMAIN files, NEW e \in BOOLEAN,
           files[f].encrypted => e,
           _store_version(u, f, e),
           UNCHANGED <<docs, active, pending>>, requests' \in Nat
    PROVE  KeepsKeys
<1> DEFINE o == files[f].owner
           k == IF e THEN ensure_data_key(f, o) ELSE NoKey
<1>1. /\ files[f] \in Row
      /\ f \in Files
      /\ o \in Users
      /\ files[f].versions \in Seq(Nat)
  BY DEF KeyInv, KeyTypeOK, Row
<1>2. /\ files' = [files EXCEPT ![f].encrypted = e,
                                ![f].versions = Retained(Append(files[f].versions, k))]
      /\ minted' = IF k > minted THEN k ELSE minted
      /\ keys' = IF e THEN [keys EXCEPT ![<<f, o>>] = k] ELSE keys
  BY DEF _store_version, KeyOfOwner
<1>3. k \in Nat
  BY <1>1 DEF KeyInv, KeyTypeOK, ensure_data_key, NoKey
<1> DEFINE vs == Retained(Append(files[f].versions, k))
<1>4. vs \in Seq(Nat) \ {<< >>}
  BY <1>1, <1>3, RetainedType
<1> HIDE DEF vs, k
<1>5. DOMAIN files' = DOMAIN files
  BY <1>2
<1>6. \A g \in DOMAIN files : g # f => files'[g] = files[g]
  BY <1>2 DEF KeyInv, KeyTypeOK
<1>7. /\ files'[f] \in Row
      /\ files'[f].encrypted = e
      /\ files'[f].owner = o
      /\ files'[f].home = files[f].home
      /\ files'[f].trash = files[f].trash
  BY <1>1, <1>2, <1>4 DEF KeyInv, KeyTypeOK, Row, vs
<1>8. \A g \in Files, v \in Users : keys'[<<g, v>>] # keys[<<g, v>>] => g = f /\ v = o /\ e
  BY <1>1, <1>2, <1>3 DEF KeyInv, KeyTypeOK
<1>9. KeyTypeOK'
  BY <1>1, <1>2, <1>3, <1>5, <1>6, <1>7 DEF KeyInv, KeyTypeOK, Shareable
<1>10. GrantsApart'
  BY DEF KeyInv, GrantsApart
<1>11. PlaintextHasNoKeys'
  BY <1>1, <1>5, <1>6, <1>7, <1>8 DEF KeyInv, PlaintextHasNoKeys
<1>12. Activates
  BY DEF Activates
<1>13. WrapsForEntitled
  BY <1>1, <1>5, <1>7, <1>8 DEF WrapsForEntitled, Entitled, KeyInv, KeyTypeOK
<1> QED BY <1>9, <1>10, <1>11, <1>12, <1>13 DEF KeepsKeys

(* A new row with a key for its owner only, and that only if the file is   *)
(* encrypted: an upload under a new name, and a copy.                      *)
LEMMA NewFileKeeps ==
    ASSUME KeyInv, NEW f \in Files \ DOMAIN files, NEW row \in Row, NEW k \in Nat,
           k # NoKey => row.encrypted,
           files' = [g \in DOMAIN files \cup {f} |-> IF g = f THEN row ELSE files[g]],
           keys' = [keys EXCEPT ![<<f, row.owner>>] = k],
           minted' \in Nat, requests' \in Nat,
           UNCHANGED <<docs, active, pending>>
    PROVE  KeepsKeys
<1>1. /\ DOMAIN files' = DOMAIN files \cup {f}
      /\ files'[f] = row
      /\ \A g \in DOMAIN files : files'[g] = files[g]
  OBVIOUS
<1>2. row.owner \in Users
  BY DEF Row
<1>3. \A g \in Files, v \in Users :
        keys'[<<g, v>>] # keys[<<g, v>>] => g = f /\ v = row.owner /\ keys'[<<g, v>>] = k
  BY <1>2 DEF KeyInv, KeyTypeOK
<1>4. KeyTypeOK'
  BY <1>1, <1>2 DEF KeyInv, KeyTypeOK, Shareable
<1>5. GrantsApart'
  BY DEF KeyInv, GrantsApart
<1>6. PlaintextHasNoKeys'
  BY <1>1, <1>3 DEF KeyInv, PlaintextHasNoKeys
<1>7. Activates
  BY DEF Activates
<1>8. WrapsForEntitled
  BY <1>1, <1>2, <1>3 DEF WrapsForEntitled, Entitled, KeyInv, KeyTypeOK
<1> QED BY <1>4, <1>5, <1>6, <1>7, <1>8 DEF KeepsKeys

(* An upload under a new name.                                             *)
LEMMA UploadNewKeeps ==
    ASSUME KeyInv, NEW u \in Users, NEW home \in Homes, NEW f \in Files, NEW e \in BOOLEAN,
           upload_new(u, home, f, e), requests' \in Nat
    PROVE  KeepsKeys
<1> DEFINE k == IF e THEN minted + 1 ELSE NoKey
           row == [home |-> home, owner |-> HomeOwner(home), trash |-> "no",
                   encrypted |-> e, versions |-> <<k>>]
<1>1. minted \in Nat /\ k \in Nat
  BY DEF KeyInv, KeyTypeOK, NoKey
<1>2. HomeOwner(home) \in Users
  BY HomeOwnerType DEF KeyInv
<1>3. row \in Row /\ row.owner = HomeOwner(home) /\ row.encrypted = e
  BY <1>1, <1>2 DEF Row
<1>4. k # NoKey => e
  OBVIOUS
<1>5. /\ f \in Files \ DOMAIN files
      /\ files' = [g \in DOMAIN files \cup {f} |-> IF g = f THEN row ELSE files[g]]
      /\ keys' = [keys EXCEPT ![<<f, HomeOwner(home)>>] = k]
      /\ minted' = minted + (IF e THEN 1 ELSE 0)
      /\ UNCHANGED <<docs, active, pending>>
  BY DEF upload_new
<1>6. minted' \in Nat
  BY <1>1, <1>5
<1> HIDE DEF k, row
<1> QED BY <1>1, <1>3, <1>4, <1>5, <1>6, NewFileKeeps

(* A copy: sealed bytes come with the caller's key, which says that the    *)
(* source, and so the copy, is encrypted.                                  *)
LEMMA CopyKeeps ==
    ASSUME KeyInv, NEW u \in Users, NEW f \in DOMAIN files, NEW home \in Homes,
           NEW g \in Files, copy(u, f, home, g), requests' \in Nat
    PROVE  KeepsKeys
<1> DEFINE k == IF Current(f) = NoKey THEN NoKey ELSE keys[<<f, u>>]
           row == [home |-> home, owner |-> u, trash |-> "no",
                   encrypted |-> files[f].encrypted, versions |-> <<Current(f)>>]
<1>1. f \in Files /\ files[f].encrypted \in BOOLEAN /\ k \in Nat
  BY DEF KeyInv, KeyTypeOK, NoKey, Row
<1>2. Current(f) \in Nat
  BY CurrentType DEF KeyInv
<1>3. row \in Row /\ row.owner = u /\ row.encrypted = files[f].encrypted
  BY <1>1, <1>2 DEF Row
<1>4. k # NoKey => files[f].encrypted
  BY <1>1 DEF KeyInv, PlaintextHasNoKeys
<1>5. /\ g \in Files \ DOMAIN files
      /\ files' = [h \in DOMAIN files \cup {g} |-> IF h = g THEN row ELSE files[h]]
      /\ keys' = [keys EXCEPT ![<<g, u>>] = k]
      /\ UNCHANGED <<docs, active, pending, minted>>
  BY DEF copy
<1>6. minted' \in Nat
  BY <1>5 DEF KeyInv, KeyTypeOK
<1> HIDE DEF k, row
<1> QED BY <1>1, <1>3, <1>4, <1>5, <1>6, NewFileKeeps

(* Keys only go, and only with the file or from it as long as it is not    *)
(* encrypted: turning encryption off.                                      *)
LEMMA DecryptKeeps ==
    ASSUME KeyInv, NEW f \in DOMAIN files, NEW vs \in Seq(Nat) \ {<< >>},
           files' = [files EXCEPT ![f].encrypted = FALSE, ![f].versions = vs],
           keys' = delete_data_keys_for_node(f),
           UNCHANGED <<docs, active, pending, minted>>, requests' \in Nat
    PROVE  KeepsKeys
<1>1. DOMAIN files' = DOMAIN files /\ files[f] \in Row /\ f \in Files
  BY DEF KeyInv, KeyTypeOK
<1>2. \A g \in DOMAIN files : g # f => files'[g] = files[g]
  BY DEF KeyInv, KeyTypeOK
<1>3. files'[f] \in Row
  BY <1>1 DEF KeyInv, KeyTypeOK, Row
<1>4. \A g \in Files, v \in Users :
        keys'[<<g, v>>] = IF g = f THEN NoKey ELSE keys[<<g, v>>]
  BY DEF delete_data_keys_for_node
<1>5. KeyTypeOK'
  <2>1. keys' \in [Files \X Users -> Nat]
    BY DEF delete_data_keys_for_node, KeyInv, KeyTypeOK, NoKey
  <2> QED BY <1>1, <1>2, <1>3, <2>1 DEF KeyInv, KeyTypeOK, Shareable
<1>6. GrantsApart'
  BY DEF KeyInv, GrantsApart
<1>7. PlaintextHasNoKeys'
  BY <1>1, <1>2, <1>4 DEF KeyInv, PlaintextHasNoKeys
<1>8. Activates
  BY DEF Activates
<1>9. WrapsForEntitled
  BY <1>1, <1>4 DEF WrapsForEntitled, KeyInv, KeyTypeOK
<1> QED BY <1>5, <1>6, <1>7, <1>8, <1>9 DEF KeepsKeys

(* Turning encryption on or off.                                           *)
LEMMA SetEncryptionKeeps ==
    ASSUME KeyInv, NEW u \in Users, NEW f \in DOMAIN files, NEW e \in BOOLEAN,
           set_encryption(u, f, e), requests' \in Nat
    PROVE  KeepsKeys
<1>1. CASE e /\ _store_version(u, f, TRUE)
  BY <1>1, StoreKeeps DEF set_encryption
<1>2. CASE ~e /\ files' = [files EXCEPT ![f].encrypted = FALSE,
                                       ![f].versions = Retained(Append(files[f].versions, NoKey))]
              /\ keys' = delete_data_keys_for_node(f)
              /\ UNCHANGED minted
  <2>1. files[f].versions \in Seq(Nat) /\ NoKey \in Nat
    BY DEF KeyInv, KeyTypeOK, Row, NoKey
  <2>2. Retained(Append(files[f].versions, NoKey)) \in Seq(Nat) \ {<< >>}
    BY <2>1, RetainedType
  <2> QED BY <1>2, <2>2, DecryptKeeps DEF set_encryption
<1> QED BY <1>1, <1>2 DEF set_encryption

(* A new version of an existing file.                                      *)
LEMMA UploadVersionKeeps ==
    ASSUME KeyInv, NEW u \in Users, NEW f \in DOMAIN files,
           upload_version(u, f), requests' \in Nat
    PROVE  KeepsKeys
<1>1. files[f].encrypted \in BOOLEAN
  BY DEF KeyInv, KeyTypeOK, Row
<1> QED BY <1>1, StoreKeeps DEF upload_version

(* Rows move or change hands, but for encryption and keys: restoring a     *)
(* version, moving, deleting and restoring.                                *)
LEMMA RowsKeep ==
    ASSUME KeyInv,
           DOMAIN files' = DOMAIN files,
           files' \in [DOMAIN files -> Row],
           \A f \in DOMAIN files : files'[f].encrypted = files[f].encrypted,
           docs' \in [owner : Users, live : BOOLEAN],
           UNCHANGED <<keys, active, pending, minted>>, requests' \in Nat
    PROVE  KeepsKeys
<1>1. KeyTypeOK'
  BY DEF KeyInv, KeyTypeOK, Shareable
<1>2. GrantsApart'
  BY DEF KeyInv, GrantsApart
<1>3. PlaintextHasNoKeys'
  BY DEF KeyInv, PlaintextHasNoKeys
<1>4. Activates /\ WrapsForEntitled
  BY DEF Activates, WrapsForEntitled
<1> QED BY <1>1, <1>2, <1>3, <1>4 DEF KeepsKeys

(* Restoring a version.                                                    *)
LEMMA RestoreVersionKeeps ==
    ASSUME KeyInv, NEW u \in Users, NEW f \in DOMAIN files, NEW i,
           restore_version(u, f, i), requests' \in Nat
    PROVE  KeepsKeys
<1> DEFINE vs == Retained(Append(files[f].versions, files[f].versions[i]))
<1>1. files[f] \in Row /\ files[f].versions \in Seq(Nat) /\ i \in DOMAIN files[f].versions
  BY DEF KeyInv, KeyTypeOK, Row, restore_version
<1>2. files[f].versions[i] \in Nat
  BY <1>1
<1>3. vs \in Seq(Nat) \ {<< >>}
  BY <1>1, <1>2, RetainedType
<1>4. /\ files' = [files EXCEPT ![f].versions = vs]
      /\ UNCHANGED <<docs, keys, active, pending, minted>>
  BY DEF restore_version
<1> HIDE DEF vs
<1>5. /\ DOMAIN files' = DOMAIN files
      /\ files' \in [DOMAIN files -> Row]
      /\ \A g \in DOMAIN files : files'[g].encrypted = files[g].encrypted
  BY <1>1, <1>3, <1>4 DEF KeyInv, KeyTypeOK, Row
<1>6. docs' \in [owner : Users, live : BOOLEAN]
  BY <1>4 DEF KeyInv, KeyTypeOK
<1> QED BY <1>4, <1>5, <1>6, RowsKeep

(* A move.                                                                 *)
LEMMA MoveKeeps ==
    ASSUME KeyInv, NEW u \in Users, NEW f \in DOMAIN files, NEW home \in Homes,
           move(u, f, home), requests' \in Nat
    PROVE  KeepsKeys
<1>1. /\ files[f] \in Row
      /\ files' = [files EXCEPT ![f].home = home]
      /\ UNCHANGED <<docs, keys, active, pending, minted>>
  BY DEF KeyInv, KeyTypeOK, move
<1>2. /\ DOMAIN files' = DOMAIN files
      /\ files' \in [DOMAIN files -> Row]
      /\ \A g \in DOMAIN files : files'[g].encrypted = files[g].encrypted
  BY <1>1 DEF KeyInv, KeyTypeOK, Row
<1>3. docs' \in [owner : Users, live : BOOLEAN]
  BY <1>1 DEF KeyInv, KeyTypeOK
<1> QED BY <1>1, <1>2, <1>3, RowsKeep

(* To the trash.                                                           *)
LEMMA DeleteKeeps ==
    ASSUME KeyInv, NEW u \in Users, NEW n \in Shareable,
           delete(u, n), requests' \in Nat
    PROVE  KeepsKeys
<1>1. \A f \in DOMAIN files :
        /\ [files[f] EXCEPT !.trash = IF n = Docs THEN "with folder" ELSE "alone"] \in Row
        /\ [files[f] EXCEPT !.trash = IF n = Docs THEN "with folder" ELSE "alone"].encrypted
              = files[f].encrypted
  BY DEF KeyInv, KeyTypeOK, Row
<1>2. /\ DOMAIN files' = DOMAIN files
      /\ files' \in [DOMAIN files -> Row]
      /\ \A f \in DOMAIN files : files'[f].encrypted = files[f].encrypted
  BY <1>1 DEF KeyInv, KeyTypeOK, delete
<1>3. docs' \in [owner : Users, live : BOOLEAN]
  BY DEF KeyInv, KeyTypeOK, delete
<1> QED BY <1>2, <1>3, RowsKeep DEF delete

(* And back.                                                               *)
LEMMA RestoreKeeps ==
    ASSUME KeyInv, NEW u \in Users, NEW n \in Shareable,
           restore(u, n), requests' \in Nat
    PROVE  KeepsKeys
<1>1. \A f \in DOMAIN files :
        /\ [files[f] EXCEPT !.trash = "no", !.home = u] \in Row
        /\ [files[f] EXCEPT !.trash = "no", !.home = u].encrypted = files[f].encrypted
        /\ [files[f] EXCEPT !.trash = "no"] \in Row
        /\ [files[f] EXCEPT !.trash = "no"].encrypted = files[f].encrypted
  BY DEF KeyInv, KeyTypeOK, Row, Homes
<1>2. /\ DOMAIN files' = DOMAIN files
      /\ files' \in [DOMAIN files -> Row]
      /\ \A f \in DOMAIN files : files'[f].encrypted = files[f].encrypted
  BY <1>1 DEF KeyInv, KeyTypeOK, restore
<1>3. docs' \in [owner : Users, live : BOOLEAN]
  BY DEF KeyInv, KeyTypeOK, restore
<1> QED BY <1>2, <1>3, RowsKeep DEF restore

(* A purge takes the row, its keys and the grants on it.                   *)
LEMMA PurgeKeeps ==
    ASSUME KeyInv, NEW u \in Users, NEW f \in DOMAIN files,
           purge(u, f), requests' \in Nat
    PROVE  KeepsKeys
<1>1. /\ DOMAIN files' = DOMAIN files \ {f}
      /\ \A g \in DOMAIN files \ {f} : files'[g] = files[g]
      /\ keys' = delete_data_keys_for_node(f)
      /\ active' \subseteq active
      /\ pending' \subseteq pending
      /\ UNCHANGED <<docs, minted>>
      /\ files' = [g \in DOMAIN files \ {f} |-> files[g]]
  BY DEF purge
<1>2. \A g \in Files, v \in Users :
        keys'[<<g, v>>] = IF g = f THEN NoKey ELSE keys[<<g, v>>]
  BY <1>1 DEF delete_data_keys_for_node
<1>3. KeyTypeOK'
  <2>1. keys' \in [Files \X Users -> Nat]
    BY <1>1 DEF delete_data_keys_for_node, KeyInv, KeyTypeOK, NoKey
  <2>2. /\ active' \subseteq Shareable' \X Users \X Role
        /\ pending' \subseteq Shareable' \X Users \X Role \X Nat
    BY <1>1 DEF purge, Shareable, KeyInv, KeyTypeOK
  <2> QED BY <1>1, <2>1, <2>2 DEF KeyInv, KeyTypeOK
<1>4. GrantsApart'
  BY <1>1 DEF KeyInv, GrantsApart
<1>5. PlaintextHasNoKeys'
  BY <1>1, <1>2 DEF KeyInv, PlaintextHasNoKeys
<1>6. Activates
  BY <1>1 DEF Activates
<1>7. WrapsForEntitled
  BY <1>1, <1>2 DEF WrapsForEntitled, KeyInv, KeyTypeOK
<1> QED BY <1>3, <1>4, <1>5, <1>6, <1>7 DEF KeepsKeys

-----------------------------------------------------------------------------
(* Sharing.                                                                *)

(* Rewrapping yields keys.                                                 *)
LEMMA RewrapType ==
    ASSUME KeyTypeOK, NEW S, S \subseteq DOMAIN files, NEW s \in Users
    PROVE  rewrap_for(S, s) \in [Files \X Users -> Nat]
<1>1. \A f \in DOMAIN files : f \in Files /\ files[f].owner \in Users
  BY DEF KeyTypeOK, Row
<1>2. \A p \in Files \X Users : p[1] \in Files /\ p[2] \in Users
  OBVIOUS
<1> QED BY <1>1, <1>2 DEF rewrap_for, KeyTypeOK

(* Only files of S and only s get a key.                                   *)
LEMMA RewrapOnly ==
    ASSUME KeyTypeOK, NEW S, S \subseteq DOMAIN files, NEW s \in Users,
           NEW f \in Files, NEW v \in Users,
           rewrap_for(S, s)[<<f, v>>] # keys[<<f, v>>]
    PROVE  f \in S /\ v = s
BY DEF rewrap_for

(* And of every file of S, s has one.                                      *)
LEMMA RewrapAll ==
    ASSUME KeyTypeOK, NEW S, S \subseteq DOMAIN files, NEW s \in Users,
           Rewrappable(S, s), NEW f \in S
    PROVE  rewrap_for(S, s)[<<f, s>>] # NoKey
<1>1. f \in Files
  BY DEF KeyTypeOK
<1> QED BY <1>1 DEF rewrap_for, Rewrappable

(* What taking keys away leaves.                                           *)
LEMMA WithoutGives ==
    ASSUME KeyTypeOK, NEW S, NEW s
    PROVE  /\ WithoutKeys(S, s) \in [Files \X Users -> Nat]
           /\ \A f \in Files, v \in Users :
                  WithoutKeys(S, s)[<<f, v>>] # NoKey => WithoutKeys(S, s)[<<f, v>>] = keys[<<f, v>>]
BY DEF WithoutKeys, KeyTypeOK, NoKey

(* The files a share of n wraps.                                           *)
LEMMA EncryptedUnder ==
    ASSUME KeyTypeOK, NEW n
    PROVE  /\ n \in Shareable =>
                 /\ Encrypted(n) \subseteq DOMAIN files
                 /\ \A f \in Encrypted(n) : files[f].encrypted /\ n \in Above(f)
           /\ \A f \in DOMAIN files :
                 n \in Above(f) /\ files[f].trash = "no" /\ files[f].encrypted => f \in Encrypted(n)
<1>1. \A f \in DOMAIN files : f # Docs
  BY KeyAssumption DEF KeyTypeOK
<1> QED BY <1>1 DEF Encrypted, LiveUnder, Under, Above, Live, Shareable

(* Grants and keys only go: revoking, and the job that meets a trashed     *)
(* node.                                                                   *)
LEMMA LessKeeps ==
    ASSUME KeyInv, NEW S, NEW s, keys' = WithoutKeys(S, s),
           active' \subseteq active, pending' \subseteq pending,
           UNCHANGED <<files, docs, minted>>, requests' \in Nat
    PROVE  KeepsKeys
<1>1. /\ keys' \in [Files \X Users -> Nat]
      /\ \A f \in Files, v \in Users : keys'[<<f, v>>] # NoKey => keys'[<<f, v>>] = keys[<<f, v>>]
  BY WithoutGives DEF KeyInv
<1>2. KeyTypeOK'
  BY <1>1 DEF KeyInv, KeyTypeOK, Shareable
<1>3. GrantsApart'
  BY DEF KeyInv, GrantsApart
<1>4. PlaintextHasNoKeys'
  BY <1>1 DEF KeyInv, PlaintextHasNoKeys
<1>5. Activates
  BY DEF Activates
<1>6. WrapsForEntitled
  BY <1>1 DEF WrapsForEntitled, KeyInv, KeyTypeOK
<1> QED BY <1>2, <1>3, <1>4, <1>5, <1>6 DEF KeepsKeys

(* Revoking.                                                               *)
LEMMA RevokeKeeps ==
    ASSUME KeyInv, NEW u, NEW n, NEW s, revoke(u, n, s), requests' \in Nat
    PROVE  KeepsKeys
<1>1. /\ keys' = WithoutKeys(LiveUnder(n), s)
      /\ active' \subseteq active
      /\ pending' \subseteq pending
      /\ UNCHANGED <<files, docs, minted>>
  BY DEF revoke, Dropped
<1> QED BY <1>1, LessKeeps

(* A share left to the job.                                                *)
LEMMA GrantPendingKeeps ==
    ASSUME KeyInv, NEW u \in Users, NEW n \in Shareable, NEW s \in Users, NEW role \in Roles,
           _grant_pending(u, n, s, role), requests' \in Nat
    PROVE  KeepsKeys
<1> DEFINE new == <<n, s, role, requests>>
<1>1. /\ \A g \in active \cup pending : ~Names(g, n, s)
      /\ pending' = pending \cup {new}
      /\ UNCHANGED <<files, docs, keys, active, minted>>
  BY DEF _grant_pending, Granted
<1>2. new \in Shareable \X Users \X Role \X Nat
  BY KeyAssumption DEF KeyInv, KeyTypeOK, Role
<1>3. KeyTypeOK'
  BY <1>1, <1>2 DEF KeyInv, KeyTypeOK, Shareable
<1>4. GrantsApart'
  BY <1>1 DEF KeyInv, GrantsApart, Names
<1>5. PlaintextHasNoKeys'
  BY <1>1 DEF KeyInv, PlaintextHasNoKeys
<1>6. Activates /\ WrapsForEntitled
  BY <1>1 DEF Activates, WrapsForEntitled
<1> QED BY <1>3, <1>4, <1>5, <1>6 DEF KeepsKeys

(* A share that is complete at once, or a new role for one that exists.    *)
LEMMA GrantNowKeeps ==
    ASSUME KeyInv, NEW u \in Users, NEW n \in Shareable, NEW s \in Users, NEW role \in Roles,
           _grant_now(u, n, s, role), requests' \in Nat
    PROVE  KeepsKeys
<1> DEFINE waits == \E g \in pending : Names(g, n, s)
           renamed(g) == IF Names(g, n, s) THEN <<n, s, role, g[4]>> ELSE g
<1>1. /\ keys' = rewrap_for(Encrypted(n), s)
      /\ Rewrappable(Encrypted(n), s)
      /\ pending' = {renamed(g) : g \in pending}
      /\ active' = IF waits THEN active ELSE {g \in active : ~Names(g, n, s)} \cup {<<n, s, role>>}
      /\ UNCHANGED <<files, docs, minted>>
  BY DEF _grant_now
<1>2. /\ Encrypted(n) \subseteq DOMAIN files
      /\ \A f \in Encrypted(n) : files[f].encrypted /\ n \in Above(f)
      /\ \A f \in DOMAIN files :
            n \in Above(f) /\ files[f].trash = "no" /\ files[f].encrypted => f \in Encrypted(n)
  BY EncryptedUnder DEF KeyInv
<1>3. /\ keys' \in [Files \X Users -> Nat]
      /\ \A f \in Files, v \in Users : keys'[<<f, v>>] # keys[<<f, v>>] => f \in Encrypted(n) /\ v = s
      /\ \A f \in Encrypted(n) : keys'[<<f, s>>] # NoKey
  <2> DEFINE S == Encrypted(n)
  <2>1. KeyTypeOK /\ S \subseteq DOMAIN files /\ Rewrappable(S, s) /\ keys' = rewrap_for(S, s)
    BY <1>1, <1>2 DEF KeyInv
  <2> HIDE DEF S
  <2>2. rewrap_for(S, s) \in [Files \X Users -> Nat]
    BY <2>1, RewrapType
  <2>3. \A f \in Files, v \in Users :
          rewrap_for(S, s)[<<f, v>>] # keys[<<f, v>>] => f \in S /\ v = s
    BY <2>1, RewrapOnly
  <2>4. \A f \in S : rewrap_for(S, s)[<<f, s>>] # NoKey
    BY <2>1, RewrapAll
  <2> QED BY <2>1, <2>2, <2>3, <2>4 DEF S
<1>4. /\ role \in Role
      /\ <<n, s, role>> \in Shareable \X Users \X Role
  BY KeyAssumption DEF KeyInv, KeyTypeOK, Role
<1>5. \A g \in pending :
        /\ g \in Shareable \X Users \X Role \X Nat
        /\ renamed(g) \in Shareable \X Users \X Role \X Nat
        /\ renamed(g)[1] = g[1] /\ renamed(g)[2] = g[2]
  BY <1>4 DEF KeyInv, KeyTypeOK, Names
<1>6. \A g, h \in pending : g[1] = h[1] /\ g[2] = h[2] => g = h
  BY DEF KeyInv, GrantsApart, Names
<1>7. waits => \E g \in pending' : Names(g, n, s)
  BY <1>1, <1>5 DEF Names
<1>8. ~waits => <<n, s, role>> \in active' /\ Names(<<n, s, role>>, n, s)
  BY <1>1 DEF Names
<1>9. KeyTypeOK'
  <2>1. active' \subseteq Shareable \X Users \X Role
    BY <1>1, <1>4 DEF KeyInv, KeyTypeOK
  <2>2. pending' \subseteq Shareable \X Users \X Role \X Nat
    BY <1>1, <1>5
  <2> QED BY <1>1, <1>3, <2>1, <2>2 DEF KeyInv, KeyTypeOK, Shareable
<1>10. GrantsApart'
  <2>1. \A g, h \in pending' : Names(g, h[1], h[2]) => g = h
    BY <1>1, <1>5, <1>6 DEF Names
  <2>2. \A g, h \in active' : Names(g, h[1], h[2]) => g = h
    BY <1>1 DEF KeyInv, GrantsApart, Names
  <2>3. \A g \in active', h \in pending' : ~Names(g, h[1], h[2])
    BY <1>1, <1>5 DEF KeyInv, GrantsApart, Names
  <2> QED BY <2>1, <2>2, <2>3 DEF GrantsApart
<1>11. PlaintextHasNoKeys'
  BY <1>1, <1>2, <1>3 DEF KeyInv, PlaintextHasNoKeys
<1>12. Activates
  <2> SUFFICES ASSUME NEW g \in active' \ active, NEW f \in DOMAIN files',
                      g[1] \in Above(f)',
                      files'[f].trash = "no" /\ files'[f].encrypted
               PROVE  keys'[<<f, g[2]>>] # NoKey
    BY DEF Activates
  <2>1. g = <<n, s, role>>
    BY <1>1
  <2>2. f \in Encrypted(n)
    BY <1>1, <1>2, <2>1 DEF Above
  <2> QED BY <1>3, <2>1, <2>2
<1>13. WrapsForEntitled
  <2> SUFFICES ASSUME NEW f \in DOMAIN files', keys'[<<f, s>>] # keys[<<f, s>>]
               PROVE  Entitled(s, f)'
    BY <1>1, <1>3 DEF WrapsForEntitled, KeyInv, KeyTypeOK
  <2>1. n \in Above(f)'
    BY <1>1, <1>2, <1>3 DEF Above, KeyInv, KeyTypeOK
  <2>2. \E g \in active' \cup pending' : Names(g, n, s)
    BY <1>7, <1>8
  <2> QED BY <2>1, <2>2 DEF Entitled, Names
<1> QED BY <1>9, <1>10, <1>11, <1>12, <1>13 DEF KeepsKeys

(* One pass of the job over a pending grant.                               *)
LEMMA RewrapJobKeeps ==
    ASSUME KeyInv, NEW g \in pending, RewrapJob(g), requests' \in Nat
    PROVE  KeepsKeys
<1> DEFINE n == g[1]
           s == g[2]
           S == Encrypted(n)
<1>1. /\ n \in Shareable /\ s \in Users
      /\ <<n, s, g[3]>> \in Shareable \X Users \X Role
  BY DEF KeyInv, KeyTypeOK
<1>2. CASE /\ Dropped(n, s)
           /\ keys' = WithoutKeys({n} \cap Files, s)
           /\ UNCHANGED <<files, docs, minted>>
  <2>1. active' \subseteq active /\ pending' \subseteq pending
    BY <1>2 DEF Dropped
  <2> QED BY <1>2, <2>1, LessKeeps
<1>3. CASE /\ Rewrappable(S, s)
           /\ keys' = rewrap_for(S, s)
           /\ \/ /\ _fully_rewrapped(n, s)
                 /\ active' = active \cup {<<n, s, g[3]>>}
                 /\ pending' = pending \ {g}
              \/ UNCHANGED <<active, pending>>
           /\ UNCHANGED <<files, docs, minted>>
  <2>1. /\ S \subseteq DOMAIN files
        /\ \A f \in S : files[f].encrypted /\ n \in Above(f)
        /\ \A f \in DOMAIN files :
              n \in Above(f) /\ files[f].trash = "no" /\ files[f].encrypted => f \in S
    BY <1>1, EncryptedUnder DEF KeyInv
  <2>2. /\ keys' \in [Files \X Users -> Nat]
        /\ \A f \in Files, v \in Users : keys'[<<f, v>>] # keys[<<f, v>>] => f \in S /\ v = s
        /\ \A f \in S : keys'[<<f, s>>] # NoKey
    <3>1. KeyTypeOK /\ S \subseteq DOMAIN files /\ Rewrappable(S, s) /\ keys' = rewrap_for(S, s)
      BY <1>3, <2>1 DEF KeyInv
    <3> HIDE DEF S, s
    <3>2. rewrap_for(S, s) \in [Files \X Users -> Nat]
      BY <1>1, <3>1, RewrapType
    <3>3. \A f \in Files, v \in Users :
            rewrap_for(S, s)[<<f, v>>] # keys[<<f, v>>] => f \in S /\ v = s
      BY <1>1, <3>1, RewrapOnly
    <3>4. \A f \in S : rewrap_for(S, s)[<<f, s>>] # NoKey
      BY <1>1, <3>1, RewrapAll
    <3> QED BY <3>1, <3>2, <3>3, <3>4
  <2> HIDE DEF S
  <2>3. \A h \in active : ~(h[1] = n /\ h[2] = s)
    BY DEF KeyInv, GrantsApart, Names
  <2>4. \A h \in pending : h[1] = n /\ h[2] = s => h = g
    BY DEF KeyInv, GrantsApart, Names
  <2>5. KeyTypeOK'
    <3>1. active' \subseteq Shareable \X Users \X Role
      BY <1>1, <1>3 DEF KeyInv, KeyTypeOK
    <3>2. pending' \subseteq Shareable \X Users \X Role \X Nat
      BY <1>3 DEF KeyInv, KeyTypeOK
    <3> QED BY <1>3, <2>2, <3>1, <3>2 DEF KeyInv, KeyTypeOK, Shareable
  <2>6. GrantsApart'
    <3>1. CASE UNCHANGED <<active, pending>>
      BY <3>1 DEF KeyInv, GrantsApart
    <3>2. CASE /\ active' = active \cup {<<n, s, g[3]>>}
               /\ pending' = pending \ {g}
      BY <2>3, <2>4, <3>2 DEF KeyInv, GrantsApart, Names
    <3> QED BY <1>3, <3>1, <3>2
  <2>7. PlaintextHasNoKeys'
    BY <1>3, <2>1, <2>2 DEF KeyInv, PlaintextHasNoKeys
  <2>8. Activates
    <3> SUFFICES ASSUME NEW h \in active' \ active, NEW f \in DOMAIN files',
                        h[1] \in Above(f)',
                        files'[f].trash = "no" /\ files'[f].encrypted
                 PROVE  keys'[<<f, h[2]>>] # NoKey
      BY DEF Activates
    <3>1. h[1] = n /\ h[2] = s
      BY <1>3
    <3>2. f \in S
      BY <1>3, <2>1, <3>1 DEF Above
    <3> QED BY <2>2, <3>1, <3>2
  <2>9. WrapsForEntitled
    <3> SUFFICES ASSUME NEW f \in DOMAIN files', keys'[<<f, s>>] # keys[<<f, s>>]
                 PROVE  Entitled(s, f)'
      BY <1>3, <2>2 DEF WrapsForEntitled, KeyInv, KeyTypeOK
    <3>1. n \in Above(f)'
      BY <1>1, <1>3, <2>1, <2>2 DEF Above, KeyInv, KeyTypeOK
    <3>2. \E h \in active' \cup pending' : h[1] = n /\ h[2] = s
      <4>1. CASE UNCHANGED pending
        BY <4>1
      <4>2. CASE active' = active \cup {<<n, s, g[3]>>}
        <5>1. <<n, s, g[3]>> \in active' \cup pending'
          BY <4>2
        <5> WITNESS <<n, s, g[3]>> \in active' \cup pending'
        <5> QED OBVIOUS
      <4> QED BY <1>3, <4>1, <4>2
    <3> QED BY <3>1, <3>2 DEF Entitled
  <2> QED BY <2>5, <2>6, <2>7, <2>8, <2>9 DEF KeepsKeys
<1> QED BY <1>2, <1>3 DEF RewrapJob

(* A transfer, with or without a role for the old owner.                   *)
LEMMA TransferKeeps ==
    ASSUME KeyInv, NEW u \in Users, NEW n \in Shareable, NEW v \in Users, NEW keep \in BOOLEAN,
           transfer_ownership(u, n, v, keep), requests' \in Nat
    PROVE  KeepsKeys
<1> DEFINE S == {f \in Under(n) : files[f].encrypted}
           E == Encrypted(n)
           source(f) == IF f = n THEN v ELSE files[f].owner
           rk == rewrap_for(S, v)
<1>1. /\ u # v
      /\ Rewrappable(S, v)
      /\ keep => /\ ~Granted(n, u)
                 /\ \A f \in E : keys[<<f, u>>] # NoKey \/ keys[<<f, source(f)>>] # NoKey
      /\ files' = [f \in DOMAIN files |->
                      IF f \in Under(n) THEN [files[f] EXCEPT !.owner = v] ELSE files[f]]
      /\ docs' = IF n = Docs THEN [docs EXCEPT !.owner = v] ELSE docs
      /\ keys' = [p \in Files \X Users |->
                      IF keep /\ p[1] \in E /\ p[2] = u /\ keys[p] = NoKey
                      THEN keys[<<p[1], source(p[1])>>] ELSE rk[p]]
      /\ active' = IF keep THEN active \cup {<<n, u, "editor">>} ELSE active
      /\ UNCHANGED <<pending, minted>>
  BY DEF transfer_ownership
<1>2. /\ E \subseteq DOMAIN files
      /\ \A f \in E : files[f].encrypted /\ n \in Above(f)
      /\ \A f \in DOMAIN files :
            n \in Above(f) /\ files[f].trash = "no" /\ files[f].encrypted => f \in E
  BY EncryptedUnder DEF KeyInv
<1>3. /\ S \subseteq DOMAIN files
      /\ S \subseteq Under(n)
      /\ \A f \in S : files[f].encrypted
  BY DEF Under, Shareable
<1>4. /\ rk \in [Files \X Users -> Nat]
      /\ \A f \in Files, w \in Users : rk[<<f, w>>] # keys[<<f, w>>] => f \in S /\ w = v
  <2>1. KeyTypeOK /\ S \subseteq DOMAIN files
    BY <1>3 DEF KeyInv
  <2> HIDE DEF S
  <2>2. rewrap_for(S, v) \in [Files \X Users -> Nat]
    BY <2>1, RewrapType
  <2>3. \A f \in Files, w \in Users :
            rewrap_for(S, v)[<<f, w>>] # keys[<<f, w>>] => f \in S /\ w = v
    BY <2>1, RewrapOnly
  <2> QED BY <2>2, <2>3
<1>5. \A f \in DOMAIN files : f \in Files /\ source(f) \in Users
  BY DEF KeyInv, KeyTypeOK, Row
<1>6. \A f \in DOMAIN files :
        /\ [files[f] EXCEPT !.owner = v] \in Row
        /\ [files[f] EXCEPT !.owner = v].owner = v
        /\ [files[f] EXCEPT !.owner = v].home = files[f].home
        /\ [files[f] EXCEPT !.owner = v].trash = files[f].trash
        /\ [files[f] EXCEPT !.owner = v].encrypted = files[f].encrypted
  BY DEF KeyInv, KeyTypeOK, Row
<1>7. /\ DOMAIN files' = DOMAIN files
      /\ files' \in [DOMAIN files -> Row]
      /\ \A f \in DOMAIN files : /\ f \in Under(n) => files'[f].owner = v
                                 /\ files'[f].home = files[f].home
                                 /\ files'[f].trash = files[f].trash
                                 /\ files'[f].encrypted = files[f].encrypted
  BY <1>1, <1>6 DEF KeyInv, KeyTypeOK
<1>8. docs' \in [owner : Users, live : BOOLEAN]
  BY <1>1 DEF KeyInv, KeyTypeOK
<1> HIDE DEF S, E, rk
<1>9. \A f \in Files, w \in Users :
        keys'[<<f, w>>] = IF keep /\ f \in E /\ w = u /\ keys[<<f, w>>] = NoKey
                         THEN keys[<<f, source(f)>>] ELSE rk[<<f, w>>]
  BY <1>1
<1>10. \A f \in Files, w \in Users :
        keys'[<<f, w>>] # keys[<<f, w>>] => (keep /\ f \in E /\ w = u) \/ (f \in S /\ w = v)
  BY <1>4, <1>9
<1>11. keep => \A f \in E : keys'[<<f, u>>] # NoKey
  BY <1>1, <1>2, <1>4, <1>5, <1>9
<1>12. ASSUME NEW f \in DOMAIN files
       PROVE  n \in Above(f)' <=> n \in Above(f)
  <2>1. f \in DOMAIN files' /\ files'[f].home = files[f].home
    BY <1>7
  <2> QED BY <2>1 DEF Above
<1>13. Shareable' = Shareable
  BY <1>7 DEF Shareable
<1>14. <<n, u, "editor">> \in Shareable \X Users \X Role
  BY DEF Role, Ranks
<1>15. KeyTypeOK'
  <2>1. keys' \in [Files \X Users -> Nat]
    BY <1>1, <1>2, <1>4, <1>5 DEF KeyInv, KeyTypeOK
  <2>2. active' \subseteq Shareable' \X Users \X Role
    BY <1>1, <1>13, <1>14 DEF KeyInv, KeyTypeOK
  <2>3. pending' \subseteq Shareable' \X Users \X Role \X Nat
    BY <1>1, <1>13 DEF KeyInv, KeyTypeOK
  <2> QED BY <1>1, <1>7, <1>8, <2>1, <2>2, <2>3 DEF KeyInv, KeyTypeOK
<1>16. GrantsApart'
  BY <1>1 DEF KeyInv, GrantsApart, Granted, Names
<1>17. PlaintextHasNoKeys'
  <2> SUFFICES ASSUME NEW f \in Files, NEW w \in Users, keys'[<<f, w>>] # NoKey
               PROVE  f \in DOMAIN files' /\ files'[f].encrypted
    BY DEF PlaintextHasNoKeys
  <2>1. f \in E \/ f \in S \/ keys[<<f, w>>] # NoKey
    BY <1>10
  <2>2. f \in DOMAIN files /\ files[f].encrypted
    BY <1>2, <1>3, <2>1 DEF KeyInv, PlaintextHasNoKeys
  <2> QED BY <1>7, <2>2
<1>18. Activates
  <2> SUFFICES ASSUME NEW g \in active' \ active, NEW f \in DOMAIN files',
                      g[1] \in Above(f)',
                      files'[f].trash = "no" /\ files'[f].encrypted
               PROVE  keys'[<<f, g[2]>>] # NoKey
    BY DEF Activates
  <2>1. keep /\ g = <<n, u, "editor">>
    BY <1>1
  <2>2. f \in DOMAIN files /\ files[f].trash = "no" /\ files[f].encrypted
    BY <1>7
  <2>3. n \in Above(f)
    BY <1>12, <2>1, <2>2
  <2>4. f \in E
    BY <1>2, <2>2, <2>3
  <2> QED BY <1>11, <2>1, <2>4
<1>19. WrapsForEntitled
  <2> SUFFICES ASSUME NEW f \in DOMAIN files', NEW w \in Users,
                      keys'[<<f, w>>] # keys[<<f, w>>]
               PROVE  Entitled(w, f)'
    BY DEF WrapsForEntitled
  <2>1. f \in DOMAIN files /\ f \in Files
    BY <1>5, <1>7
  <2>2. CASE f \in S /\ w = v
    BY <1>3, <1>7, <2>1, <2>2 DEF Entitled
  <2>3. CASE keep /\ f \in E /\ w = u
    <3>1. n \in Above(f)' /\ <<n, u, "editor">> \in active'
      BY <1>1, <1>2, <1>12, <2>1, <2>3
    <3> QED BY <2>3, <3>1 DEF Entitled
  <2> QED BY <1>10, <2>1, <2>2, <2>3
<1> QED BY <1>15, <1>16, <1>17, <1>18, <1>19 DEF KeepsKeys

-----------------------------------------------------------------------------
(* The whole.                                                              *)

(* Every step keeps the invariant, and does what the two action properties *)
(* ask for.                                                                *)
LEMMA StepKeeps ==
    ASSUME KeyInv, Next
    PROVE  KeepsKeys
<1>1. requests' \in Nat
  BY DEF KeyInv, KeyTypeOK, Next, Request, Job
<1>2. CASE Contents
  BY <1>1, <1>2, UploadNewKeeps, CopyKeeps, UploadVersionKeeps, SetEncryptionKeeps,
     RestoreVersionKeeps DEF Contents
<1>3. CASE Sharing
  BY <1>1, <1>3, GrantPendingKeeps, GrantNowKeeps, RevokeKeeps, TransferKeeps DEF Sharing
<1>4. CASE Tree
  BY <1>1, <1>4, MoveKeeps, PurgeKeeps, DeleteKeeps, RestoreKeeps DEF Tree
<1>5. CASE Job
  BY <1>1, <1>5, RewrapJobKeeps DEF Job
<1> QED BY <1>2, <1>3, <1>4, <1>5 DEF Next, Request

(* It holds to begin with.                                                 *)
LEMMA InitKeys ==
    ASSUME Init
    PROVE  KeyInv
<1>1. KeyTypeOK
  BY KeyAssumption DEF Init, KeyTypeOK, NoKey, Row
<1>2. GrantsApart
  BY DEF Init, GrantsApart
<1>3. PlaintextHasNoKeys
  BY DEF Init, PlaintextHasNoKeys
<1> QED BY <1>1, <1>2, <1>3 DEF KeyInv

(* And without a step.                                                     *)
LEMMA StutterKeeps ==
    ASSUME KeyInv, UNCHANGED vars
    PROVE  KeyInv'
<1>1. KeyTypeOK'
  BY DEF KeyInv, KeyTypeOK, Shareable, vars
<1>2. GrantsApart'
  BY DEF KeyInv, GrantsApart, vars
<1>3. PlaintextHasNoKeys'
  BY DEF KeyInv, PlaintextHasNoKeys, vars
<1> QED BY <1>1, <1>2, <1>3 DEF KeyInv

(* The invariant: rows, keys and grants are well formed, every grant is on *)
(* a node there is, grants are apart, and plaintext has no keys.           *)
THEOREM KeyInvariant == Spec => []KeyInv
<1>1. KeyInv /\ [Next]_vars => KeyInv'
  BY StepKeeps, StutterKeeps DEF KeepsKeys, KeyInv
<1> QED BY InitKeys, <1>1, PTL DEF Spec

(* A node is shared with a user at most once, pending or active.           *)
THEOREM OneGrantPerUser == Spec => []OneGrantEach
<1>1. KeyInv => OneGrantEach
  <2> SUFFICES ASSUME KeyInv, NEW g \in active \cup pending, NEW h \in active \cup pending,
                      Names(g, h[1], h[2])
               PROVE  g = h
    BY DEF OneGrantEach
  <2>1. Names(h, g[1], g[2])
    BY DEF Names
  <2> QED BY <2>1 DEF KeyInv, GrantsApart
<1> QED BY KeyInvariant, <1>1, PTL

(* A file that is plaintext, or gone, has no wrapped key.                  *)
THEOREM NoKeyOutlivesItsUse == Spec => []PlaintextHasNoKeys
<1>1. KeyInv => PlaintextHasNoKeys
  BY DEF KeyInv
<1> QED BY KeyInvariant, <1>1, PTL

(* A grant is complete in the step that makes it active.                   *)
THEOREM SharesAppearUsable == Spec => ActivationComplete
<1>1. KeyInv /\ [Next]_vars => [Activates]_vars
  BY StepKeeps DEF KeepsKeys
<1> QED BY KeyInvariant, <1>1, PTL DEF Spec, ActivationComplete, Activates

(* A key is wrapped for nobody a file is not shared with.                  *)
THEOREM OnlyEntitledGetKeys == Spec => KeysOnlyForEntitled
<1>1. KeyInv /\ [Next]_vars => [WrapsForEntitled]_vars
  BY StepKeeps DEF KeepsKeys
<1> QED BY KeyInvariant, <1>1, PTL DEF Spec, KeysOnlyForEntitled, WrapsForEntitled

-----------------------------------------------------------------------------
(***************************************************************************)
(* Sealed content, for plaintext, frames and chunks of any size: only true *)
(* bytes are served, and what nobody damaged opens.                        *)
(*                                                                         *)
(* Every cell that authenticates is of a frame of this plaintext, and      *)
(* unless frames were moved it lies in its place.  So what opens at an     *)
(* index is the frame of that index, complete, and the read has come to    *)
(* the byte it begins with: what is added continues what came out.  With   *)
(* another frame size only the first frame opens, which lies in the same   *)
(* place for every size.                                                   *)
(*                                                                         *)
(* For an intact object the buffer and the source are the cells of the     *)
(* object from the offset of the next frame on, and begin with this frame, *)
(* complete as soon as the reader takes it for complete; and after the     *)
(* frame marked as the last there is nothing.                              *)
(***************************************************************************)

-----------------------------------------------------------------------------
(* Arithmetic and parts of sequences.                                      *)
(* Quotient and remainder.                                                 *)
LEMMA TimesMonotonic ==
    ASSUME NEW a \in Int, NEW b \in Int, NEW c \in Nat, a <= b
    PROVE  a * c <= b * c
OBVIOUS

(* Only one quotient and remainder fit.                                    *)
LEMMA QuotientUnique ==
    ASSUME NEW q \in Nat, NEW r \in Nat, NEW b \in Nat, r < b
    PROVE  (q * b + r) \div b = q /\ (q * b + r) % b = r
<1>1. PICK n \in Nat : n = q * b + r
  OBVIOUS
<1>2. PICK p \in Int, s \in Int : p = n \div b /\ s = n % b
  OBVIOUS
<1>3. n = p * b + s /\ 0 <= s /\ s < b
  BY <1>1, <1>2
<1>4. ~ p < q
  <2> SUFFICES ASSUME p < q PROVE FALSE
    OBVIOUS
  <2>1. (p + 1) * b <= q * b
    BY TimesMonotonic
  <2> QED BY <1>1, <1>3, <2>1
<1>5. ~ q < p
  <2> SUFFICES ASSUME q < p PROVE FALSE
    OBVIOUS
  <2>1. (q + 1) * b <= p * b
    BY TimesMonotonic
  <2> QED BY <1>1, <1>3, <2>1
<1> QED BY <1>1, <1>2, <1>3, <1>4, <1>5

(* There is a quotient and a remainder.                                    *)
LEMMA Quotient ==
    ASSUME NEW n \in Nat, NEW b \in Nat, b > 0
    PROVE  \E q, r \in Nat : n \div b = q /\ n % b = r /\ r < b /\ n = q * b + r
<1>1. PICK q \in Int, r \in Int : q = n \div b /\ r = n % b
  OBVIOUS
<1>2. n = q * b + r /\ 0 <= r /\ r < b
  BY <1>1
<1>3. ~ q < 0
  <2> SUFFICES ASSUME q < 0 PROVE FALSE
    OBVIOUS
  <2>1. q + 1 <= 0 /\ q + 1 \in Int
    OBVIOUS
  <2>2. (q + 1) * b <= 0 * b
    BY <2>1, TimesMonotonic
  <2> QED BY <1>2, <2>2
<1>4. q \in Nat /\ r \in Nat /\ r < b /\ n = q * b + r
  BY <1>2, <1>3
<1> QED BY <1>1, <1>4

(* A quotient of natural numbers is one.                                   *)
LEMMA QuotientIsNat ==
    ASSUME NEW n \in Nat, NEW b \in Nat, b > 0
    PROVE  n \div b \in Nat
BY Quotient

(* The smaller of two numbers.                                             *)
LEMMA MinOfTwo ==
    ASSUME NEW a \in Int, NEW b \in Int
    PROVE  Min({a, b}) = IF a <= b THEN a ELSE b
<1>1. PICK c \in {a, b} : \A y \in {a, b} : c <= y
  OBVIOUS
<1>2. Min({a, b}) \in {a, b} /\ \A y \in {a, b} : Min({a, b}) <= y
  BY <1>1 DEF Min
<1> QED BY <1>2

(* A part of a sequence.                                                   *)
LEMMA Cut ==
    ASSUME NEW S, NEW s \in Seq(S), NEW a \in Nat, NEW b \in Nat, a >= 1, b <= Len(s)
    PROVE  /\ SubSeq(s, a, b) \in Seq(S)
           /\ Len(SubSeq(s, a, b)) = IF a <= b THEN b - a + 1 ELSE 0
           /\ \A i \in 1 .. Len(SubSeq(s, a, b)) : SubSeq(s, a, b)[i] = s[a + i - 1]
OBVIOUS

(* Two sequences, one after the other.                                     *)
LEMMA Joined ==
    ASSUME NEW S, NEW s \in Seq(S), NEW t \in Seq(S)
    PROVE  /\ s \o t \in Seq(S) /\ Len(s \o t) = Len(s) + Len(t)
           /\ Len(s) \in Nat /\ Len(t) \in Nat
           /\ \A i \in 1 .. Len(s) : (s \o t)[i] = s[i]
           /\ \A i \in 1 .. Len(t) : (s \o t)[Len(s) + i] = t[i]
OBVIOUS

-----------------------------------------------------------------------------
(* The frames of a plaintext.                                              *)
(* The frames of a plaintext of n bytes, w to a frame: which there are,    *)
(* the bytes of each, and which is the last.                               *)
Valid(n, w, j) == j \in Nat /\ (j = 0 \/ j * w < n)

Data(n, w, j) == [k \in 1 .. (IF (j + 1) * w <= n THEN w ELSE n - j * w) |-> j * w + k]

IsFinal(n, w, j) == n <= (j + 1) * w

(* Cells that authenticate as part of this version are of its frames; what *)
(* a store may make of an object has no others.                            *)
OddCells == [version : {"header", "other"}, index : Nat, at : Nat]

FrameCells ==
    [version : {"this", "other"}, index : Nat, final : BOOLEAN, data : Seq(Nat), at : Nat]

TrueCells(n, w) ==
    OddCells \cup
    {c \in FrameCells : c.version = "this" => /\ Valid(n, w, c.index)
                                             /\ c.data = Data(n, w, c.index)
                                             /\ c.final = IsFinal(n, w, c.index)}

(* What the constants are.                                                 *)
LEMMA FramingNumbers ==
    /\ HeaderCells \in Nat /\ HeaderCells > 0
    /\ FrameOverhead \in Nat /\ FrameOverhead > 0
    /\ \A fb \in FrameSizes : fb \in Nat /\ fb > 0
    /\ \A k \in Chunks : k \in Nat /\ k > 0
    /\ PlainSizes \subseteq Nat /\ Absence \notin Nat
BY FramingAssumption

(* The bytes of a frame.                                                   *)
LEMMA DataOf ==
    ASSUME NEW n \in Nat, NEW w \in Nat, w > 0, NEW j, Valid(n, w, j)
    PROVE  /\ Data(n, w, j) \in Seq(Nat) /\ Len(Data(n, w, j)) \in Nat
           /\ Len(Data(n, w, j)) = IF (j + 1) * w <= n THEN w ELSE n - j * w
           /\ Len(Data(n, w, j)) <= w /\ j * w + Len(Data(n, w, j)) <= n
           /\ (Len(Data(n, w, j)) = w \/ j * w + Len(Data(n, w, j)) = n)
           /\ \A k \in 1 .. Len(Data(n, w, j)) : Data(n, w, j)[k] = j * w + k
           /\ j * w \in Nat /\ (j + 1) * w = j * w + w
           /\ IsFinal(n, w, j) => j * w + Len(Data(n, w, j)) = n
           /\ ~ IsFinal(n, w, j) => Len(Data(n, w, j)) = w
<1>1. PICK b \in Nat : b = j * w
  BY DEF Valid
<1>2. (j + 1) * w = b + w
  BY <1>1 DEF Valid
<1>3. b <= n
  BY <1>1 DEF Valid
<1>4. PICK l \in Nat : l = IF b + w <= n THEN w ELSE n - b
  <2>1. (IF b + w <= n THEN w ELSE n - b) \in Nat
    BY <1>3
  <2> QED BY <2>1
<1>5. Data(n, w, j) = [k \in 1 .. l |-> b + k]
  BY <1>1, <1>2, <1>4 DEF Data
<1>6. PICK d : d = Data(n, w, j)
  OBVIOUS
<1>7. d \in Seq(Nat) /\ Len(d) = l /\ \A k \in 1 .. l : d[k] = b + k
  BY <1>5, <1>6
<1>8. IsFinal(n, w, j) <=> n <= b + w
  BY <1>2 DEF IsFinal
<1> HIDE <1>5
<1>9. l <= w /\ b + l <= n /\ (l = w \/ b + l = n) /\ (n <= b + w => b + l = n)
        /\ (~ n <= b + w => l = w)
  BY <1>3, <1>4
<1>10. l = IF (j + 1) * w <= n THEN w ELSE n - j * w
  BY <1>1, <1>2, <1>4
<1> QED BY <1>1, <1>2, <1>6, <1>7, <1>8, <1>9, <1>10

-----------------------------------------------------------------------------
(* Objects.                                                                *)
(* The cells of a frame, and where they lie in an object.                  *)
SealedCell(n, w, j, a) ==
    [version |-> "this", index |-> j, final |-> IsFinal(n, w, j), data |-> Data(n, w, j), at |-> a]

Placed(o, n, w, j) ==
    \A a \in 1 .. Len(Data(n, w, j)) + FrameOverhead :
        o[ciphertext_offset(j, w) + a] = SealedCell(n, w, j, a)

InPlace(o, w) ==
    \A p \in 1 .. Len(o) :
        o[p].version = "this" => p = ciphertext_offset(o[p].index, w) + o[p].at

Headed(o, w) == Len(o) >= HeaderCells /\ \A i \in 1 .. HeaderCells : o[i] = Header(w)[i]

(* An object that holds the first j frames, in order, after the header.    *)
Holds(o, n, w, j) ==
    /\ o \in Seq(TrueCells(n, w)) /\ InPlace(o, w) /\ Headed(o, w)
    /\ \A i \in 0 .. j - 1 : Placed(o, n, w, i)

(* Frame j is the last it holds.                                          *)
Whole(o, n, w, j) ==
    /\ Holds(o, n, w, j + 1)
    /\ Len(o) = ciphertext_offset(j, w) + Len(Data(n, w, j)) + FrameOverhead

(* Offsets.                                                                *)
LEMMA Offsets ==
    ASSUME NEW w \in Nat, NEW j \in Nat
    PROVE  /\ ciphertext_offset(j, w) \in Nat /\ ciphertext_offset(j, w) >= HeaderCells
           /\ ciphertext_offset(j + 1, w) = ciphertext_offset(j, w) + w + FrameOverhead
           /\ ciphertext_offset(0, w) = HeaderCells
           /\ \A i \in Nat : i <= j => ciphertext_offset(i, w) <= ciphertext_offset(j, w)
<1>1. PICK f \in Nat : f = w + FrameOverhead
  BY FramingNumbers
<1>2. j * f \in Nat /\ (j + 1) * f = j * f + f /\ 0 * f = 0
  OBVIOUS
<1>3. ciphertext_offset(j, w) = HeaderCells + j * f
        /\ ciphertext_offset(j + 1, w) = HeaderCells + (j + 1) * f
  BY <1>1 DEF ciphertext_offset
<1>4. ciphertext_offset(0, w) = HeaderCells
  BY <1>1, <1>2, FramingNumbers DEF ciphertext_offset
<1>5. ASSUME NEW i \in Nat, i <= j PROVE ciphertext_offset(i, w) <= ciphertext_offset(j, w)
  <2>1. i * f <= j * f
    BY <1>5, TimesMonotonic
  <2>2. ciphertext_offset(i, w) = HeaderCells + i * f /\ i * f \in Nat
    BY <1>1 DEF ciphertext_offset
  <2> QED BY <1>2, <1>3, <2>1, <2>2, FramingNumbers
<1>6. ciphertext_offset(j, w) \in Nat /\ ciphertext_offset(j, w) >= HeaderCells
  BY <1>2, <1>3, FramingNumbers
<1>7. ciphertext_offset(j + 1, w) = ciphertext_offset(j, w) + w + FrameOverhead
  <2>1. PICK k \in Nat, k2 \in Nat : k = j * f /\ k2 = (j + 1) * f
    OBVIOUS
  <2>2. k2 = k + f
    BY <1>2, <2>1
  <2> QED BY <1>1, <1>3, <2>1, <2>2, FramingNumbers
<1> QED BY <1>4, <1>5, <1>6, <1>7

(* A sealed frame is its cells.                                            *)
LEMMA SealedFrame ==
    ASSUME NEW n \in Nat, NEW w \in Nat, w > 0, NEW j, Valid(n, w, j)
    PROVE  LET s == _seal_frame(Data(n, w, j), j, IsFinal(n, w, j)) IN
           /\ s \in Seq(TrueCells(n, w))
           /\ Len(s) = Len(Data(n, w, j)) + FrameOverhead /\ Len(s) \in Nat
           /\ \A a \in 1 .. Len(s) : s[a] = SealedCell(n, w, j, a)
<1>1. PICK l \in Nat : l = Len(Data(n, w, j)) + FrameOverhead
  BY DataOf, FramingNumbers
<1>2. PICK s : s = _seal_frame(Data(n, w, j), j, IsFinal(n, w, j))
  OBVIOUS
<1>3. s = [a \in 1 .. l |-> SealedCell(n, w, j, a)]
  BY <1>1, <1>2 DEF _seal_frame, SealedCell
<1>4. ASSUME NEW a \in 1 .. l PROVE SealedCell(n, w, j, a) \in TrueCells(n, w)
  <2>0. Data(n, w, j) \in Seq(Nat) /\ IsFinal(n, w, j) \in BOOLEAN
    BY DataOf DEF IsFinal
  <2>1. PICK d \in Seq(Nat), f \in BOOLEAN : d = Data(n, w, j) /\ f = IsFinal(n, w, j)
    BY <2>0
  <2>2. PICK c : c = [version |-> "this", index |-> j, final |-> f, data |-> d, at |-> a]
    OBVIOUS
  <2>3. c = SealedCell(n, w, j, a)
    BY <2>1, <2>2 DEF SealedCell
  <2>4. c \in FrameCells /\ c.index = j /\ c.data = d /\ c.final = f
    BY <2>2 DEF FrameCells, Valid
  <2> QED BY <2>1, <2>3, <2>4 DEF TrueCells
<1>5. s \in Seq(TrueCells(n, w)) /\ Len(s) = l /\ \A a \in 1 .. l :
        s[a] = SealedCell(n, w, j, a)
  BY <1>3, <1>4
<1> QED BY <1>1, <1>2, <1>5

(* The cells of x, then those of y.                                        *)
Appends(T, z, x, y) ==
    /\ z \in Seq(T) /\ Len(x) \in Nat /\ Len(y) \in Nat /\ Len(z) = Len(x) + Len(y)
    /\ \A i \in 1 .. Len(x) : z[i] = x[i]
    /\ \A i \in 1 .. Len(y) : z[Len(x) + i] = y[i]

(* Concatenation appends.                                                  *)
LEMMA Appended ==
    ASSUME NEW T, NEW x \in Seq(T), NEW y \in Seq(T)
    PROVE  Appends(T, x \o y, x, y)
BY DEF Appends

(* The next frame is appended.                                             *)
LEMMA FrameAppended ==
    ASSUME NEW n \in Nat, NEW w \in Nat, w > 0, NEW j, Valid(n, w, j), NEW o, Holds(o, n, w, j),
           Len(o) = ciphertext_offset(j, w),
           NEW o2, o2 = o \o _seal_frame(Data(n, w, j), j, IsFinal(n, w, j))
    PROVE  Whole(o2, n, w, j)
<1>1. PICK s : s = _seal_frame(Data(n, w, j), j, IsFinal(n, w, j))
  OBVIOUS
<1>2. PICK l \in Nat : l = Len(Data(n, w, j)) + FrameOverhead /\ Len(s) = l
  BY <1>1, SealedFrame
<1>3. s \in Seq(TrueCells(n, w)) /\ \A a \in 1 .. l : s[a] = SealedCell(n, w, j, a)
  BY <1>1, <1>2, SealedFrame
<1>4. o \in Seq(TrueCells(n, w)) /\ o2 = o \o s
  BY <1>1 DEF Holds
<1>5. PICK b \in Nat : b = ciphertext_offset(j, w) /\ Len(o) = b /\ b >= HeaderCells
  BY Offsets DEF Valid
<1>6. /\ o2 \in Seq(TrueCells(n, w)) /\ Len(o2) = b + l
      /\ \A i \in 1 .. b : o2[i] = o[i]
      /\ \A i \in 1 .. l : o2[b + i] = s[i]
  <2>1. Appends(TrueCells(n, w), o \o s, o, s)
    BY <1>3, <1>4, Appended, Zenon
  <2> QED BY <1>2, <1>4, <1>5, <2>1 DEF Appends
<1>7. InPlace(o2, w)
  <2> SUFFICES ASSUME NEW p \in 1 .. Len(o2), o2[p].version = "this"
               PROVE  p = ciphertext_offset(o2[p].index, w) + o2[p].at
    BY DEF InPlace
  <2>1. CASE p \in 1 .. b
    BY <1>5, <1>6, <2>1 DEF Holds, InPlace
  <2>2. CASE p \notin 1 .. b
    <3>1. PICK a \in 1 .. l : p = b + a
      <4>1. p - b \in 1 .. l /\ p = b + (p - b)
        BY <1>6, <2>2
      <4> QED BY <4>1
    <3>2. o2[p] = SealedCell(n, w, j, a)
      BY <1>3, <1>6, <3>1
    <3>3. o2[p].index = j /\ o2[p].at = a
      BY <3>2 DEF SealedCell
    <3> QED BY <1>5, <3>1, <3>3
  <2> QED BY <2>1, <2>2
<1>8. Headed(o2, w)
  BY <1>2, <1>5, <1>6, FramingNumbers DEF Holds, Headed
<1>9. ASSUME NEW i \in 0 .. j PROVE Placed(o2, n, w, i)
  <2> SUFFICES ASSUME NEW a \in 1 .. Len(Data(n, w, i)) + FrameOverhead
               PROVE  o2[ciphertext_offset(i, w) + a] = SealedCell(n, w, i, a)
    BY DEF Placed
  <2>1. CASE i = j
    BY <1>2, <1>3, <1>5, <1>6, <2>1
  <2>2. CASE i # j
    <3>0. j \in Nat
      BY DEF Valid
    <3>1. i \in 0 .. j - 1 /\ i \in Nat /\ i + 1 <= j /\ i + 1 \in Nat
      BY <2>2, <3>0
    <3>2. Valid(n, w, i)
      <4>1. i * w <= j * w /\ (i = 0 \/ j * w < n) /\ i * w \in Nat /\ j * w \in Nat
        BY <3>0, <3>1, TimesMonotonic DEF Valid
      <4> QED BY <3>1, <4>1 DEF Valid
    <3>3. PICK e \in Nat, m \in Nat : e = ciphertext_offset(i, w) /\ m = Len(Data(n, w, i))
                 /\ m <= w
      <4>1. ciphertext_offset(i, w) \in Nat
        BY <3>1, Offsets
      <4>2. Len(Data(n, w, i)) \in Nat /\ Len(Data(n, w, i)) <= w
        BY <3>2, DataOf
      <4> QED BY <4>1, <4>2
    <3>4. e + w + FrameOverhead <= b
      BY <1>5, <3>0, <3>1, <3>3, Offsets
    <3>5. a \in 1 .. m + FrameOverhead /\ e + a \in 1 .. b
      BY <3>3, <3>4, FramingNumbers, SMTT(20)
    <3>6. o[e + a] = SealedCell(n, w, i, a)
      BY <3>1, <3>3, <3>5 DEF Holds, Placed
    <3> QED BY <1>6, <3>3, <3>5, <3>6
  <2> QED BY <2>1, <2>2
<1>10. (j + 1) - 1 = j
  BY DEF Valid
<1>11. Holds(o2, n, w, j + 1)
  <2>1. \A i \in 0 .. (j + 1) - 1 : Placed(o2, n, w, i)
    BY <1>9, <1>10, Zenon
  <2> QED BY <1>6, <1>7, <1>8, <2>1 DEF Holds
<1>12. Len(Data(n, w, j)) \in Nat
  BY DataOf
<1> QED BY <1>2, <1>5, <1>6, <1>11, <1>12, FramingNumbers DEF Whole

-----------------------------------------------------------------------------
(* The inductive invariant.                                                *)
Writers ==
    [phase : {"seal", "stored"}, size : PlainSizes, fb : FrameSizes, taken : Nat,
     buffer : Seq(Nat), index : Nat]

Damages == {"none", "truncated", "rearranged", "substituted"}

(* While sealing, the buffer is what follows the frames written so far.    *)
Sealing(wr, o) ==
    /\ Holds(o, wr.size, wr.fb, wr.index)
    /\ Len(o) = ciphertext_offset(wr.index, wr.fb)
    /\ wr.index * wr.fb + Len(wr.buffer) = wr.taken /\ wr.taken <= wr.size
    /\ \A k \in 1 .. Len(wr.buffer) : wr.buffer[k] = wr.index * wr.fb + k
    /\ wr.index > 0 => Len(wr.buffer) > 0

(* A stored object has cells of this version in their places only, unless  *)
(* it was rearranged, and all of them, unless it was damaged.              *)
Kept(wr, o, d) ==
    /\ Valid(wr.size, wr.fb, wr.index) /\ IsFinal(wr.size, wr.fb, wr.index)
    /\ o \in Seq(TrueCells(wr.size, wr.fb))
    /\ d # "rearranged" => InPlace(o, wr.fb)
    /\ d = "none" => Whole(o, wr.size, wr.fb, wr.index)

(* x and y, one after the other, are the cells of o from b to e.           *)
Window(o, b, e, x, y) ==
    /\ Len(x) + Len(y) = (IF b <= e THEN e - b ELSE 0)
    /\ \A p \in 1 .. Len(x) : x[p] = o[b + p]
    /\ \A p \in 1 .. Len(y) : y[p] = o[b + Len(x) + p]

Base(r) == IF r.phase = "header" THEN 0 ELSE ciphertext_offset(r.index, r.fb)

End(r, o) ==
    IF r.range = Absence THEN Len(o)
    ELSE Min({ciphertext_offset(frames_for_range(r.range, r.fb).last + 1, r.fb), Len(o)})

Readers(T) ==
    [phase : {"idle", "header", "frames", "done", "failed"},
     range : {Absence} \cup [start : Nat, length : Nat],
     source : Seq(T), buffer : Seq(T), fb : Nat, index : Nat, skip : Nat,
     left : Nat \cup {Absence}, final : BOOLEAN, out : Seq(Nat)]

First(r) == IF r.range = Absence THEN 0 ELSE r.range.start

TrueOut(r) == \A k \in 1 .. Len(r.out) : r.out[k] = First(r) + k

(* A whole read has come to the frame of its index.                        *)
WholeRead(r, n, w) ==
    /\ r.skip = 0 /\ r.left = Absence
    /\ r.phase \in {"idle", "header"} => r.index = 0 /\ ~ r.final
    /\ IF r.final
       THEN r.index > 0 /\ Len(r.out) = n /\ n <= r.index * w
       ELSE Len(r.out) = r.index * w /\ Valid(n, w, r.index) /\ r.phase # "done"

(* A range read has come to its place in the frame of its index; with      *)
(* another frame size than the object's, only a first frame opens.         *)
Come(r, w) ==
    /\ r.index * w + r.skip = r.range.start + Len(r.out) /\ r.skip < w

Lost(r) ==
    \/ r.index = 1
    \/ r.index * r.fb + r.skip = r.range.start /\ Len(r.out) = 0

RangeRead(r, n, w, d) ==
    /\ r.fb > 0 /\ r.phase \in {"frames", "done", "failed"}
    /\ r.range.length > 0 /\ r.range.start + r.range.length <= n
    /\ Len(r.out) <= r.range.length
    /\ r.phase = "frames" =>
        /\ r.left \in Nat /\ r.left > 0 /\ r.left = r.range.length - Len(r.out)
        /\ IF r.fb = w THEN Come(r, w) ELSE d = "rearranged" \/ Lost(r)

Exempt(r, w, d) == d = "rearranged" /\ r.range # Absence /\ r.fb # w

ReaderOK(r, n, w, o, d) ==
    /\ r \in Readers(TrueCells(n, w))
    /\ IF r.range = Absence THEN WholeRead(r, n, w) ELSE RangeRead(r, n, w, d)
    /\ TrueOut(r) \/ Exempt(r, w, d)
    /\ r.phase \in {"header", "frames"} => Window(o, Base(r), End(r, o), r.buffer, r.source)

(* An object that is whole has been read so far, and completely if done.   *)
Untouched(r, w) ==
    /\ r.range = Absence /\ r.phase \in {"frames", "done"} => r.fb = w
    /\ r.range = Absence \/ r.fb = w =>
        /\ r.phase # "failed"
        /\ r.phase = "done" /\ r.range # Absence => Len(r.out) = r.range.length

FrameInv ==
    /\ writer \in Writers /\ damage \in Damages
    /\ IF writer.phase = "seal" THEN Sealing(writer, object) ELSE Kept(writer, object, damage)
    /\ writer.phase = "seal" => damage = "none" /\ reader = Idle
    /\ ReaderOK(reader, writer.size, writer.fb, object, damage)
    /\ damage = "none" => Untouched(reader, writer.fb)

-----------------------------------------------------------------------------
(* What a read has before it.                                              *)
(* A part of a sequence, to be looked into only where it is needed.        *)
Part(T, z, s, a, b) ==
    /\ z \in Seq(T) /\ Len(z) \in Nat /\ Len(s) \in Nat
    /\ Len(z) = IF a <= b THEN b - a + 1 ELSE 0
    /\ \A i \in 1 .. Len(z) : z[i] = s[a + i - 1]

(* SubSeq takes a part.                                                    *)
LEMMA Parted ==
    ASSUME NEW T, NEW s \in Seq(T), NEW a \in Nat, NEW b \in Nat, a >= 1, b <= Len(s)
    PROVE  Part(T, SubSeq(s, a, b), s, a, b)
BY DEF Part

(* A buffer with the next k cells of a source, and a sequence without its  *)
(* first k.                                                                *)
Longer(x, y, k) == x \o SubSeq(y, 1, Min({k, Len(y)}))

Without(y, k) == SubSeq(y, k + 1, Len(y))

(* A chunk moves from the source to the buffer.                            *)
LEMMA WindowPulled ==
    ASSUME NEW T, NEW o, NEW b \in Nat, NEW e \in Nat, NEW x, NEW y, x \in Seq(T), y \in Seq(T),
           Window(o, b, e, x, y), NEW k \in Nat
    PROVE  /\ Window(o, b, e, Longer(x, y, k), Without(y, k))
           /\ Longer(x, y, k) \in Seq(T) /\ Without(y, k) \in Seq(T)
<1>b. PICK x2, y2 : x2 = Longer(x, y, k) /\ y2 = Without(y, k)
  OBVIOUS
<1>0. x2 = x \o SubSeq(y, 1, Min({k, Len(y)})) /\ y2 = SubSeq(y, k + 1, Len(y))
  BY <1>b DEF Longer, Without
<1>1. PICK m \in Nat : m = Min({k, Len(y)}) /\ m = (IF k <= Len(y) THEN k ELSE Len(y))
             /\ m <= Len(y)
  <2>1. Len(y) \in Nat
    OBVIOUS
  <2>2. Min({k, Len(y)}) = IF k <= Len(y) THEN k ELSE Len(y)
    BY <2>1, MinOfTwo
  <2> QED BY <2>1, <2>2
<1>2. PICK z : z = SubSeq(y, 1, m)
  OBVIOUS
<1>3. Part(T, z, y, 1, m)
  BY <1>1, <1>2, Parted
<1>4. Appends(T, x2, x, z)
  <2>1. z \in Seq(T) /\ x2 = x \o z
    BY <1>0, <1>1, <1>2, <1>3 DEF Part
  <2> QED BY <2>1, Appended
<1>5. Part(T, y2, y, k + 1, Len(y))
  <2>1. k + 1 \in Nat /\ k + 1 >= 1 /\ Len(y) \in Nat /\ Len(y) <= Len(y)
    OBVIOUS
  <2> QED BY <1>0, <2>1, Parted
<1>a. PICK lx \in Nat, ly \in Nat : lx = Len(x) /\ ly = Len(y)
  OBVIOUS
<1>6. Len(z) = m /\ Len(x2) = lx + m /\ Len(y2) = ly - m /\ m <= ly
  <2>1. Len(z) = m /\ m <= ly
    BY <1>1, <1>3, <1>a DEF Part
  <2>2. Len(x2) = lx + m
    BY <1>4, <1>a, <2>1 DEF Appends
  <2>3. Len(y2) = IF k + 1 <= ly THEN ly - (k + 1) + 1 ELSE 0
    BY <1>5, <1>a DEF Part
  <2>4. m = IF k <= ly THEN k ELSE ly
    BY <1>1, <1>a
  <2>5. Len(y2) = ly - m
    BY <2>3, <2>4
  <2> QED BY <2>1, <2>2, <2>5
<1>7. ASSUME NEW p \in 1 .. Len(x2) PROVE x2[p] = o[b + p]
  <2>0. p \in 1 .. lx + m
    BY <1>6
  <2>1. CASE p \in 1 .. lx
    <3>1. x2[p] = x[p]
      BY <1>4, <1>a, <2>1 DEF Appends
    <3> QED BY <1>a, <2>1, <3>1 DEF Window
  <2>2. CASE p \notin 1 .. lx
    <3>1. PICK q \in 1 .. m : p = lx + q
      <4>1. p - lx \in 1 .. m /\ p = lx + (p - lx)
        BY <2>0, <2>2
      <4> QED BY <4>1
    <3>2. x2[p] = z[q] /\ z[q] = y[q]
      <4>1. x2[lx + q] = z[q]
        BY <1>4, <1>6, <1>a DEF Appends
      <4>2. z[q] = y[1 + q - 1] /\ 1 + q - 1 = q
        BY <1>3, <1>6 DEF Part
      <4> QED BY <3>1, <4>1, <4>2
    <3>3. q \in 1 .. ly
      BY <1>6
    <3>4. y[q] = o[b + lx + q]
      BY <1>a, <3>3 DEF Window
    <3>5. b + p = b + lx + q
      BY <3>1
    <3> QED BY <3>2, <3>4, <3>5
  <2> QED BY <2>1, <2>2
<1>8. ASSUME NEW p \in 1 .. Len(y2) PROVE y2[p] = o[b + Len(x2) + p]
  <2>0. p \in 1 .. ly - m
    BY <1>6
  <2>1. m = k
    BY <1>1, <1>a, <2>0
  <2>2. y2[p] = y[k + 1 + p - 1] /\ k + 1 + p - 1 = m + p
    <3>1. y2[p] = y[k + 1 + p - 1]
      BY <1>5 DEF Part
    <3>2. k + 1 + p - 1 = m + p
      BY <2>0, <2>1
    <3> QED BY <3>1, <3>2
  <2>3. m + p \in 1 .. ly
    BY <1>6, <2>0
  <2>4. y[m + p] = o[b + lx + (m + p)]
    BY <1>a, <2>3 DEF Window
  <2>5. b + lx + (m + p) = b + (lx + m) + p
    BY <2>0
  <2> QED BY <1>6, <2>2, <2>4, <2>5
<1>9. Len(x2) + Len(y2) = Len(x) + Len(y)
  <2>1. (lx + m) + (ly - m) = lx + ly
    OBVIOUS
  <2> QED BY <1>6, <1>a, <2>1
<1>10. x2 \in Seq(T) /\ y2 \in Seq(T)
  BY <1>4, <1>5 DEF Appends, Part
<1>11. Len(x2) + Len(y2) = (IF b <= e THEN e - b ELSE 0)
  BY <1>9 DEF Window
<1>12. Window(o, b, e, x2, y2)
  BY <1>7, <1>8, <1>11 DEF Window
<1> QED BY <1>b, <1>10, <1>12

(* Cells that were looked at are dropped from the buffer.                  *)
LEMMA WindowDropped ==
    ASSUME NEW T, NEW o, NEW b \in Nat, NEW e \in Nat, NEW x, NEW y, x \in Seq(T), y \in Seq(T),
           Window(o, b, e, x, y), NEW m \in Nat, m <= Len(x),
           NEW x2, NEW b2
    PROVE  x2 = Without(x, m) /\ b2 = b + m => Window(o, b2, e, x2, y) /\ x2 \in Seq(T)
<1>0. SUFFICES ASSUME x2 = SubSeq(x, m + 1, Len(x)), b2 = b + m
               PROVE  Window(o, b + m, e, x2, y) /\ x2 \in Seq(T)
  BY Zenon DEF Without
<1>1. Part(T, x2, x, m + 1, Len(x))
  <2>1. m + 1 \in Nat /\ m + 1 >= 1 /\ Len(x) \in Nat /\ Len(x) <= Len(x)
    OBVIOUS
  <2> QED BY <1>0, <2>1, Parted
<1>a. PICK lx \in Nat, ly \in Nat : lx = Len(x) /\ ly = Len(y) /\ m <= lx
  OBVIOUS
<1>2. Len(x2) = lx - m
  BY <1>1, <1>a DEF Part
<1>3. ASSUME NEW p \in 1 .. Len(x2) PROVE x2[p] = o[b + m + p]
  <2>0. p \in 1 .. lx - m
    BY <1>2
  <2>1. x2[p] = x[m + 1 + p - 1] /\ m + 1 + p - 1 = m + p
    BY <1>1, <2>0 DEF Part
  <2>2. m + p \in 1 .. lx
    BY <2>0
  <2>3. x[m + p] = o[b + (m + p)]
    BY <1>a, <2>2 DEF Window
  <2>4. b + (m + p) = b + m + p
    BY <2>0
  <2> QED BY <2>1, <2>3, <2>4
<1>4. ASSUME NEW p \in 1 .. Len(y) PROVE y[p] = o[b + m + Len(x2) + p]
  <2>0. p \in 1 .. ly
    BY <1>a
  <2>1. y[p] = o[b + lx + p]
    BY <1>a DEF Window
  <2>2. b + lx + p = b + m + (lx - m) + p
    BY <2>0, <1>a
  <2> QED BY <1>2, <2>1, <2>2
<1>5. Len(x2) + Len(y) = (IF b + m <= e THEN e - (b + m) ELSE 0)
  <2>1. lx + ly = (IF b <= e THEN e - b ELSE 0)
    BY <1>a DEF Window
  <2>2. (lx - m) + ly = (IF b + m <= e THEN e - (b + m) ELSE 0)
    BY <1>a, <2>1
  <2> QED BY <1>a, <1>2, <2>2
<1>6. x2 \in Seq(T)
  BY <1>1 DEF Part
<1> QED BY <1>3, <1>4, <1>5, <1>6 DEF Window

(* The same for the header in front of an object.                          *)
LEMMA HeaderDropped ==
    ASSUME NEW T, NEW o, NEW e \in Nat, NEW x, NEW y, x \in Seq(T), y \in Seq(T),
           Window(o, 0, e, x, y), HeaderCells <= Len(x), NEW x2, x2 = Without(x, HeaderCells)
    PROVE  Window(o, 0 + HeaderCells, e, x2, y) /\ x2 \in Seq(T)
<1>1. PICK h \in Nat, z \in Nat, c \in Nat : h = HeaderCells /\ z = 0 /\ c = z + h
  BY FramingNumbers
<1>2. Window(o, z, e, x, y) /\ h <= Len(x) /\ x2 = Without(x, h)
  BY <1>1
<1>3. x2 = Without(x, h) /\ c = z + h => Window(o, c, e, x2, y) /\ x2 \in Seq(T)
  BY <1>2, WindowDropped
<1>4. Window(o, c, e, x2, y) /\ x2 \in Seq(T)
  BY <1>1, <1>2, <1>3, Zenon
<1>5. c = 0 + HeaderCells
  BY <1>1, Zenon
<1> QED BY <1>4, <1>5, Zenon

(* A read begins with nothing in the buffer.                               *)
LEMMA WindowOpened ==
    ASSUME NEW T, NEW o, o \in Seq(T), NEW b \in Nat, NEW e \in Nat, e <= Len(o),
           NEW y, y = SubSeq(o, b + 1, e)
    PROVE  Window(o, b, e, <<>>, y) /\ y \in Seq(T)
<1>1. Part(T, y, o, b + 1, e)
  <2>1. b + 1 \in Nat /\ b + 1 >= 1
    OBVIOUS
  <2> QED BY <2>1, Parted
<1>2. Len(<<>>) = 0 /\ 0 + Len(y) = Len(y) /\ Len(y) = (IF b <= e THEN e - b ELSE 0)
  BY <1>1 DEF Part
<1>3. ASSUME NEW p \in 1 .. Len(y) PROVE y[p] = o[b + 0 + p]
  <2>1. y[p] = o[b + 1 + p - 1] /\ b + 1 + p - 1 = b + 0 + p
    BY <1>1 DEF Part
  <2> QED BY <2>1
<1>4. 1 .. Len(<<>>) = {}
  OBVIOUS
<1>5. y \in Seq(T)
  BY <1>1 DEF Part
<1> QED BY <1>2, <1>3, <1>4, <1>5 DEF Window

-----------------------------------------------------------------------------
(* Frames in another order, one after the other.                           *)
(* Induction: a set that has 0 and with a number the next has them all.    *)
LEMMA CountingUp ==
    ASSUME NEW S, 0 \in S, \A k \in Nat : k \in S => k + 1 \in S
    PROVE  \A k \in Nat : k \in S
<1> DEFINE Bad == {k \in Nat : k \notin S}
<1> SUFFICES ASSUME NEW n \in Bad PROVE FALSE
  OBVIOUS
<1>1. PICK m \in Bad : \A k \in Bad : m <= k
  <2>1. Bad \subseteq Nat /\ Bad # {}
    OBVIOUS
  <2> HIDE DEF Bad
  <2>2. PICK R : R = OpToRel(<, Nat) /\ IsWellFoundedOn(R, Nat)
    BY NatLessThanWellFounded
  <2>3. PICK m \in Bad : \A k \in Bad : ~ <<k, m>> \in R
    BY <2>1, <2>2, WFMin
  <2>4. ASSUME NEW k \in Bad PROVE m <= k
    <3>1. ~ k < m
      BY <2>1, <2>2, <2>3 DEF OpToRel
    <3> QED BY <2>1, <3>1
  <2> QED BY <2>4
<1>2. m # 0 /\ m \in Nat
  OBVIOUS
<1>3. m - 1 \in Nat /\ ~ m <= m - 1 /\ (m - 1) + 1 = m
  BY <1>2
<1>4. m - 1 \in S
  BY <1>1, <1>3
<1> QED BY <1>3, <1>4

(* What FlattenSeq computes for the first k sequences.                     *)
Flat(f, ss, k) == f = [i \in 1 .. k |-> IF i = 1 THEN ss[i] ELSE f[i - 1] \o ss[i]]

(* The recursion has a solution for as many sequences as there are.        *)
LEMMA FlatExists ==
    ASSUME NEW ss, NEW l \in Nat
    PROVE  \E f : Flat(f, ss, l)
<1> DEFINE S == {k \in Nat : \E f : Flat(f, ss, k)}
<1>1. 0 \in S
  <2>1. Flat([i \in 1 .. 0 |-> 0], ss, 0)
    BY DEF Flat
  <2> QED BY <2>1
<1>2. ASSUME NEW k \in Nat, k \in S PROVE k + 1 \in S
  <2>1. PICK f : Flat(f, ss, k)
    BY <1>2
  <2>2. PICK v : v = IF k + 1 = 1 THEN ss[k + 1] ELSE f[k] \o ss[k + 1]
    OBVIOUS
  <2>3. PICK g : g = [i \in 1 .. k + 1 |-> IF i = k + 1 THEN v ELSE f[i]]
    OBVIOUS
  <2>4. ASSUME NEW i \in 1 .. k + 1 PROVE g[i] = IF i = 1 THEN ss[i] ELSE g[i - 1] \o ss[i]
    <3>1. CASE i = k + 1
      <4>1. g[i] = v
        BY <2>3, <3>1
      <4>2. i # 1 => i - 1 \in 1 .. k + 1 /\ i - 1 # k + 1 /\ i - 1 = k
        BY <3>1
      <4>3. i # 1 => g[i - 1] = f[k]
        BY <2>3, <4>2
      <4> QED BY <2>2, <3>1, <4>1, <4>3, Zenon
    <3>2. CASE i # k + 1
      <4>1. i \in 1 .. k /\ g[i] = f[i]
        BY <2>3, <3>2
      <4>2. i # 1 => i - 1 \in 1 .. k + 1 /\ i - 1 # k + 1
        BY <4>1
      <4>3. i # 1 => g[i - 1] = f[i - 1]
        BY <2>3, <4>2
      <4>4. f[i] = IF i = 1 THEN ss[i] ELSE f[i - 1] \o ss[i]
        BY <2>1, <4>1, Zenon DEF Flat
      <4> QED BY <4>1, <4>3, <4>4, Zenon
    <3> QED BY <3>1, <3>2
  <2>5. g = [i \in 1 .. k + 1 |-> g[i]]
    BY <2>3
  <2>6. Flat(g, ss, k + 1)
    BY <2>4, <2>5, Zenon DEF Flat
  <2> QED BY <2>6
<1>3. l \in S
  <2> HIDE DEF S
  <2> QED BY <1>1, <1>2, CountingUp
<1> QED BY <1>3

(* What is flattened has no other elements.                                *)
LEMMA FlattenIn ==
    ASSUME NEW T, NEW ss, NEW l \in Nat, Len(ss) = l, l > 0, \A i \in 1 .. l : ss[i] \in Seq(T)
    PROVE  FlattenSeq(ss) \in Seq(T)
<1> DEFINE f == CHOOSE h : Flat(h, ss, l)
<1>1. Flat(f, ss, l)
  BY FlatExists
<1>2. FlattenSeq(ss) = f[l]
  BY DEF FlattenSeq, Flat
<1> HIDE DEF f
<1>3. \A i \in 1 .. l : f[i] = IF i = 1 THEN ss[i] ELSE f[i - 1] \o ss[i]
  BY <1>1, Zenon DEF Flat
<1> DEFINE S == {k \in Nat : k \in 1 .. l => f[k] \in Seq(T)}
<1>4. 0 \in S
  OBVIOUS
<1>5. ASSUME NEW k \in Nat, k \in S PROVE k + 1 \in S
  <2> SUFFICES ASSUME k + 1 \in 1 .. l PROVE f[k + 1] \in Seq(T)
    OBVIOUS
  <2>1. PICK v : v = ss[k + 1] /\ v \in Seq(T)
    OBVIOUS
  <2>2. CASE k = 0
    <3>1. f[k + 1] = v
      BY <1>3, <2>1, <2>2
    <3> QED BY <2>1, <3>1
  <2>3. CASE k # 0
    <3>1. PICK u : u = f[k] /\ u \in Seq(T)
      BY <1>5, <2>3
    <3>2. f[k + 1] = f[(k + 1) - 1] \o ss[k + 1] /\ (k + 1) - 1 = k
      <4>1. k + 1 # 1 /\ (k + 1) - 1 = k
        BY <2>3
      <4> QED BY <1>3, <4>1, Zenon
    <3>3. u \o v \in Seq(T)
      BY <2>1, <3>1
    <3> QED BY <2>1, <3>1, <3>2, <3>3
  <2> QED BY <2>2, <2>3
<1>6. l \in S
  <2> HIDE DEF S
  <2> QED BY <1>4, <1>5, CountingUp
<1> QED BY <1>2, <1>6

-----------------------------------------------------------------------------
(* What opens.                                                             *)
(* Two sequences with the same elements are one.                           *)
LEMMA SameCells ==
    ASSUME NEW T, NEW s \in Seq(T), NEW t \in Seq(T), Len(s) = Len(t),
           \A i \in 1 .. Len(s) : s[i] = t[i]
    PROVE  s = t
OBVIOUS

(* What opens is a frame of this version, at its index, as it was sealed.  *)
LEMMA OpensTrue ==
    ASSUME NEW n \in Nat, NEW w \in Nat, w > 0, NEW cells, cells \in Seq(TrueCells(n, w)),
           Len(cells) > 0, NEW i \in Nat, NEW c \in _open_frame(cells, i)
    PROVE  /\ Valid(n, w, i) /\ c.data = Data(n, w, i) /\ c.final = IsFinal(n, w, i)
           /\ cells = _seal_frame(Data(n, w, i), i, IsFinal(n, w, i))
           /\ cells[1] = SealedCell(n, w, i, 1)
<1>1. c = cells[1] /\ c.version = "this" /\ c.index = i
        /\ cells = _seal_frame(c.data, i, c.final)
  BY DEF _open_frame
<1>2. c \in TrueCells(n, w)
  BY <1>1
<1>3. c \notin OddCells
  BY <1>1 DEF OddCells
<1>4. Valid(n, w, i) /\ c.data = Data(n, w, i) /\ c.final = IsFinal(n, w, i)
  BY <1>1, <1>2, <1>3 DEF TrueCells
<1>5. cells = _seal_frame(Data(n, w, i), i, IsFinal(n, w, i))
  BY <1>1, <1>4
<1>6. cells[1] = SealedCell(n, w, i, 1)
  <2>1. PICK s : s = _seal_frame(Data(n, w, i), i, IsFinal(n, w, i))
    OBVIOUS
  <2>2. Len(s) \in Nat /\ \A a \in 1 .. Len(s) : s[a] = SealedCell(n, w, i, a)
    BY <1>4, <2>1, SealedFrame
  <2>3. Len(s) > 0
    BY <1>5, <2>1
  <2>4. 1 \in 1 .. Len(s)
    BY <2>2, <2>3
  <2> QED BY <1>5, <2>1, <2>2, <2>4
<1> QED BY <1>4, <1>5, <1>6

(* Cells that are those of a frame open.                                   *)
LEMMA SealedOpens ==
    ASSUME NEW n \in Nat, NEW w \in Nat, w > 0, NEW i \in Nat, Valid(n, w, i),
           NEW cells, cells = _seal_frame(Data(n, w, i), i, IsFinal(n, w, i))
    PROVE  _open_frame(cells, i) # {}
<1>1. Len(cells) \in Nat /\ Len(cells) > 0
  BY SealedFrame, DataOf, FramingNumbers
<1>2. cells[1] = SealedCell(n, w, i, 1)
  BY <1>1, SealedFrame
<1>3. /\ cells[1].version = "this" /\ cells[1].index = i
      /\ cells[1].data = Data(n, w, i) /\ cells[1].final = IsFinal(n, w, i)
  BY <1>2 DEF SealedCell
<1>4. cells[1] \in _open_frame(cells, i)
  BY <1>3 DEF _open_frame
<1> QED BY <1>4

(* The cells of an intact object from a frame on begin with this frame.    *)
LEMMA FrameHere ==
    ASSUME NEW n \in Nat, NEW w \in Nat, w > 0, NEW j, Valid(n, w, j), IsFinal(n, w, j),
           NEW o, Whole(o, n, w, j), NEW i \in Nat, Valid(n, w, i),
           NEW e \in Nat, e <= Len(o), e = Len(o) \/ e >= ciphertext_offset(i + 1, w),
           NEW x, NEW y, x \in Seq(TrueCells(n, w)), y \in Seq(TrueCells(n, w)),
           Window(o, ciphertext_offset(i, w), e, x, y)
    PROVE  /\ Len(x) + Len(y) > 0
           /\ Len(x) >= w + FrameOverhead =>
                SubSeq(x, 1, w + FrameOverhead) = _seal_frame(Data(n, w, i), i, IsFinal(n, w, i))
           /\ Len(x) < w + FrameOverhead /\ y = <<>> =>
                x = _seal_frame(Data(n, w, i), i, IsFinal(n, w, i))
<1>0. j \in Nat
  BY DEF Valid
<1>1. PICK b \in Nat, m \in Nat, lo \in Nat, lx \in Nat, ly \in Nat :
        /\ b = ciphertext_offset(i, w) /\ m = Len(Data(n, w, i)) /\ lo = Len(o)
        /\ lx = Len(x) /\ ly = Len(y)
  <2>1. Len(o) \in Nat
    BY DEF Whole, Holds
  <2>2. ciphertext_offset(i, w) \in Nat
    BY Offsets
  <2>3. Len(Data(n, w, i)) \in Nat
    BY DataOf
  <2>4. Len(x) \in Nat /\ Len(y) \in Nat
    OBVIOUS
  <2> QED BY <2>1, <2>2, <2>3, <2>4
<1>2. i <= j
  <2> SUFFICES ASSUME i > j PROVE FALSE
    BY <1>0
  <2>1. (j + 1) * w <= i * w /\ (j + 1) * w \in Nat /\ i * w \in Nat
    BY <1>0, TimesMonotonic
  <2>2. i * w < n
    BY <1>0 DEF Valid
  <2>3. n <= (j + 1) * w
    BY DEF IsFinal
  <2> QED BY <2>1, <2>2, <2>3
<1>3. m <= w
  BY <1>1, DataOf
<1>4. ciphertext_offset(i + 1, w) = b + w + FrameOverhead
  BY <1>1, Offsets
<1>5. Placed(o, n, w, i)
  BY <1>0, <1>2 DEF Whole, Holds
<1>6. b + m + FrameOverhead <= e /\ (m = w \/ e = b + m + FrameOverhead)
  <2>1. CASE i = j
    <3>1. lo = b + m + FrameOverhead
      BY <1>1, <2>1 DEF Whole
    <3>2. e <= lo /\ (e = lo \/ e >= b + w + FrameOverhead)
      BY <1>1, <1>4
    <3> QED BY <1>3, <3>1, <3>2, FramingNumbers
  <2>2. CASE i < j
    <3>1. (i + 1) * w <= j * w /\ (i + 1) * w \in Nat /\ j * w \in Nat
      BY <1>0, <2>2, TimesMonotonic
    <3>2. j * w < n
      BY <1>0, <2>2 DEF Valid
    <3>3. (i + 1) * w <= n
      BY <3>1, <3>2
    <3>4. m = w
      BY <1>1, <3>3, DataOf
    <3>5. PICK bj \in Nat : bj = ciphertext_offset(j, w) /\ b + w + FrameOverhead <= bj
      <4>1. i + 1 \in Nat /\ i + 1 <= j
        BY <1>0, <2>2
      <4>2. ciphertext_offset(i + 1, w) <= ciphertext_offset(j, w)
              /\ ciphertext_offset(j, w) \in Nat
        BY <1>0, <4>1, Offsets
      <4> QED BY <1>4, <4>2
    <3>6. lo >= bj
      <4>1. PICK d \in Nat : d = Len(Data(n, w, j))
        BY DataOf
      <4>2. lo = bj + d + FrameOverhead
        BY <1>1, <3>5, <4>1 DEF Whole
      <4> QED BY <4>2, FramingNumbers
    <3>7. e = lo \/ e >= b + w + FrameOverhead
      BY <1>1, <1>4
    <3> QED BY <3>4, <3>5, <3>6, <3>7, FramingNumbers
  <2> QED BY <1>0, <1>2, <2>1, <2>2
<1>7. lx + ly = e - b
  BY <1>1, <1>6, FramingNumbers, SMTT(20) DEF Window
<1>8. PICK s : s = _seal_frame(Data(n, w, i), i, IsFinal(n, w, i))
  OBVIOUS
<1>9. s \in Seq(TrueCells(n, w)) /\ Len(s) = m + FrameOverhead /\ m + FrameOverhead \in Nat
  BY <1>1, <1>8, SealedFrame, FramingNumbers
<1>10. ASSUME NEW p \in 1 .. m + FrameOverhead, p \in 1 .. lx PROVE s[p] = x[p]
  <2>1. s[p] = SealedCell(n, w, i, p)
    BY <1>8, <1>9, SealedFrame
  <2>2. o[b + p] = SealedCell(n, w, i, p)
    BY <1>1, <1>5 DEF Placed
  <2>3. x[p] = o[b + p]
    BY <1>1, <1>10 DEF Window
  <2> QED BY <2>1, <2>2, <2>3
<1>11. ASSUME lx >= w + FrameOverhead PROVE SubSeq(x, 1, w + FrameOverhead) = s
  <2>1. m = w
    BY <1>3, <1>6, <1>7, <1>11, FramingNumbers
  <2>2. PICK l \in Nat : l = w + FrameOverhead /\ l <= lx
    BY <1>11, FramingNumbers
  <2>3. PICK z : z = SubSeq(x, 1, l)
    OBVIOUS
  <2>4. Part(TrueCells(n, w), z, x, 1, l)
    BY <1>1, <2>2, <2>3, Parted
  <2>5. Len(z) = l
    BY <2>2, <2>4, FramingNumbers DEF Part
  <2>6. ASSUME NEW p \in 1 .. l PROVE z[p] = s[p]
    <3>1. z[p] = x[1 + p - 1] /\ 1 + p - 1 = p
      BY <2>4, <2>5 DEF Part
    <3>2. p \in 1 .. m + FrameOverhead /\ p \in 1 .. lx
      BY <2>1, <2>2
    <3> QED BY <1>10, <3>1, <3>2
  <2>7. z = s
    BY <1>9, <2>1, <2>2, <2>4, <2>5, <2>6, SameCells DEF Part
  <2> QED BY <2>2, <2>3, <2>7
<1>12. ASSUME lx < w + FrameOverhead, y = <<>> PROVE x = s
  <2>1. ly = 0
    BY <1>1, <1>12
  <2>2. lx = m + FrameOverhead
    BY <1>6, <1>7, <1>12, <2>1, FramingNumbers
  <2>3. ASSUME NEW p \in 1 .. lx PROVE x[p] = s[p]
    BY <1>10, <2>2
  <2> QED BY <1>1, <1>9, <2>2, <2>3, SameCells
<1>13. lx + ly > 0
  BY <1>6, <1>7, FramingNumbers
<1> QED BY <1>1, <1>8, <1>11, <1>12, <1>13

(* A byte of a frame.                                                      *)
LEMMA DataByte ==
    ASSUME NEW n \in Nat, NEW w \in Nat, w > 0, NEW i, Valid(n, w, i),
           NEW k \in 1 .. Len(Data(n, w, i))
    PROVE  Data(n, w, i)[k] = i * w + k
BY DataOf

(* The bytes of a frame from the skip on.                                  *)
Rest(n, w, i, sk) == SubSeq(Data(n, w, i), sk + 1, Len(Data(n, w, i)))

(* The bytes after the first f.                                            *)
TrueFrom(s, f) == \A k \in 1 .. Len(s) : s[k] = f + k

(* What a frame adds to what came out, from the place it has come to.      *)
LEMMA TrueAdded ==
    ASSUME NEW n \in Nat, NEW w \in Nat, w > 0, NEW i, Valid(n, w, i), NEW sk \in Nat,
           NEW out, out \in Seq(Nat), NEW f \in Nat, i * w + sk = f + Len(out),
           TrueFrom(out, f),
           NEW m \in Nat, m <= Len(Rest(n, w, i, sk))
    PROVE  TrueFrom(out \o SubSeq(Rest(n, w, i, sk), 1, m), f)
<1>0. PICK piece, out2 : piece = SubSeq(Rest(n, w, i, sk), 1, m) /\ out2 = out \o piece
  OBVIOUS
<1>1. PICK d : d = Data(n, w, i)
  OBVIOUS
<1>2. PICK l \in Nat, bi \in Nat, lo \in Nat :
        /\ l = Len(d) /\ bi = i * w /\ lo = Len(out) /\ d \in Seq(Nat)
        /\ \A k \in 1 .. l : d[k] = bi + k
  <2>1. Len(d) \in Nat /\ i * w \in Nat /\ d \in Seq(Nat) /\ \A k \in 1 .. Len(d) :
          d[k] = i * w + k
    <3>1. Data(n, w, i) \in Seq(Nat) /\ Len(Data(n, w, i)) \in Nat /\ i * w \in Nat
      BY DataOf, Zenon
    <3>2. ASSUME NEW k \in 1 .. Len(Data(n, w, i)) PROVE Data(n, w, i)[k] = i * w + k
      BY DataByte
    <3> QED BY <1>1, <3>1, <3>2, Zenon
  <2>2. Len(out) \in Nat
    OBVIOUS
  <2> QED BY <2>1, <2>2
<1>3. PICK a : a = SubSeq(d, sk + 1, l)
  OBVIOUS
<1>4. Part(Nat, a, d, sk + 1, l)
  <2>1. sk + 1 \in Nat /\ sk + 1 >= 1 /\ l <= Len(d)
    BY <1>2
  <2> QED BY <1>2, <1>3, <2>1, Parted, Zenon
<1>5. piece = SubSeq(a, 1, m) /\ m <= Len(a)
  BY <1>0, <1>1, <1>2, <1>3 DEF Rest
<1>6. Part(Nat, piece, a, 1, m)
  <2>1. a \in Seq(Nat) /\ 1 \in Nat /\ 1 >= 1
    BY <1>4 DEF Part
  <2> QED BY <1>5, <2>1, Parted, Zenon
<1>7. Appends(Nat, out2, out, piece)
  <2>1. piece \in Seq(Nat)
    BY <1>6 DEF Part
  <2>2. Appends(Nat, out \o piece, out, piece)
    BY <2>1, Appended, Zenon
  <2> QED BY <1>0, <2>2, Zenon
<1>8. Len(piece) = m
  BY <1>6 DEF Part
<1>9. ASSUME NEW k \in 1 .. Len(out2) PROVE out2[k] = f + k
  <2>1. k \in 1 .. lo + m
    BY <1>2, <1>7, <1>8 DEF Appends
  <2>2. CASE k \in 1 .. lo
    <3>1. out2[k] = out[k]
      BY <1>2, <1>7, <2>2 DEF Appends
    <3>2. out[k] = f + k
      BY <1>2, <2>2 DEF TrueFrom
    <3> QED BY <3>1, <3>2
  <2>3. CASE k \notin 1 .. lo
    <3>1. PICK q \in 1 .. m : k = lo + q
      <4>1. k - lo \in 1 .. m /\ k = lo + (k - lo)
        BY <2>1, <2>3
      <4> QED BY <4>1
    <3>2. out2[lo + q] = piece[q]
      BY <1>2, <1>7, <1>8 DEF Appends
    <3>3. piece[q] = a[1 + q - 1] /\ 1 + q - 1 = q
      BY <1>6, <1>8 DEF Part
    <3>4. q \in 1 .. Len(a) /\ Len(a) \in Nat
      BY <1>4, <1>5 DEF Part
    <3>5. a[q] = d[sk + 1 + q - 1] /\ sk + 1 + q - 1 = sk + q
      BY <1>4, <3>4 DEF Part
    <3>6. sk + q \in 1 .. l
      <4>1. Len(a) = IF sk + 1 <= l THEN l - (sk + 1) + 1 ELSE 0
        BY <1>4 DEF Part
      <4> QED BY <3>4, <4>1
    <3>7. d[sk + q] = bi + (sk + q)
      BY <1>2, <3>6
    <3>8. bi + (sk + q) = f + (lo + q)
      <4>1. bi + sk = f + lo
        BY <1>2
      <4> QED BY <4>1
    <3>9. out2[lo + q] = f + (lo + q)
      BY <3>2, <3>3, <3>5, <3>7, <3>8
    <3> QED BY <3>1, <3>9
  <2> QED BY <2>2, <2>3
<1>10. TrueFrom(out2, f)
  BY <1>9 DEF TrueFrom
<1> QED BY <1>0, <1>10

-----------------------------------------------------------------------------
(* Sealing.                                                                *)
(* Nobody reads.                                                           *)
LEMMA IdleOK ==
    ASSUME NEW n \in Nat, NEW w \in Nat, NEW o, NEW d
    PROVE  ReaderOK(Idle, n, w, o, d) /\ Untouched(Idle, w)
<1>1. /\ Idle.phase = "idle" /\ Idle.range = Absence /\ Idle.skip = 0 /\ Idle.left = Absence
      /\ Idle.final = FALSE /\ Idle.index = 0 /\ Idle.out = <<>>
  BY DEF Idle
<1>2. Idle \in Readers(TrueCells(n, w))
  BY DEF Idle, Readers
<1>3. Len(<<>>) = 0 /\ 0 * w = 0 /\ 1 .. 0 = {}
  OBVIOUS
<1>4. WholeRead(Idle, n, w)
  BY <1>1, <1>3 DEF WholeRead, Valid
<1>5. TrueOut(Idle)
  BY <1>1, <1>3 DEF TrueOut
<1> QED BY <1>1, <1>2, <1>4, <1>5 DEF ReaderOK, Untouched

(* Only the header is written.                                             *)
LEMMA HeaderHolds ==
    ASSUME NEW n \in Nat, NEW w \in Nat, w > 0
    PROVE  Holds(Header(w), n, w, 0) /\ Len(Header(w)) = HeaderCells
<1>1. PICK h : h = Header(w)
  OBVIOUS
<1>2. h = [i \in 1 .. HeaderCells |-> [version |-> "header", index |-> w, at |-> i]]
  BY <1>1 DEF Header
<1>3. ASSUME NEW i \in 1 .. HeaderCells
      PROVE  [version |-> "header", index |-> w, at |-> i] \in TrueCells(n, w)
  <2>1. i \in Nat
    BY FramingNumbers
  <2> QED BY <2>1 DEF TrueCells, OddCells
<1>4. h \in Seq(TrueCells(n, w)) /\ Len(h) = HeaderCells
  BY <1>2, <1>3, FramingNumbers
<1>5. \A i \in 1 .. HeaderCells : h[i].version = "header"
  BY <1>2
<1>6. InPlace(h, w)
  BY <1>4, <1>5 DEF InPlace
<1>7. Headed(h, w)
  BY <1>1, <1>4, FramingNumbers DEF Headed
<1>8. 0 .. 0 - 1 = {}
  OBVIOUS
<1> QED BY <1>1, <1>4, <1>6, <1>7, <1>8 DEF Holds

(* A chunk of plaintext.                                                   *)
Takes(wr, k, upTo, wr2) ==
    /\ wr.taken < wr.size /\ upTo = Min({wr.taken + k, wr.size})
    /\ wr2 = [wr EXCEPT !.taken = upTo,
                        !.buffer = @ \o SubSeq(Plain(wr.size), wr.taken + 1, upTo)]

(* The buffer goes on with the next bytes of the plaintext.                *)
LEMMA ChunkSealing ==
    ASSUME NEW wr \in Writers, NEW o, Sealing(wr, o), NEW k \in Nat, k > 0, NEW upTo, NEW wr2,
           Takes(wr, k, upTo, wr2)
    PROVE  /\ wr2 \in Writers /\ Sealing(wr2, o)
           /\ wr2.size = wr.size /\ wr2.fb = wr.fb /\ wr2.phase = wr.phase
<1>0. /\ wr.taken < wr.size /\ upTo = Min({wr.taken + k, wr.size})
      /\ wr2 = [wr EXCEPT !.taken = upTo,
                          !.buffer = @ \o SubSeq(Plain(wr.size), wr.taken + 1, upTo)]
  BY Zenon DEF Takes
<1>1. PICK n \in Nat, w \in Nat, t \in Nat, j \in Nat : n = wr.size /\ w = wr.fb
             /\ t = wr.taken /\ j = wr.index
  BY FramingNumbers DEF Writers
<1>2. upTo \in Nat /\ t < upTo /\ upTo <= n
  <2>1. upTo = Min({t + k, n}) /\ t < n
    BY <1>0, <1>1
  <2>2. Min({t + k, n}) = IF t + k <= n THEN t + k ELSE n
    <3>1. t + k \in Int /\ n \in Int
      OBVIOUS
    <3> QED BY <3>1, MinOfTwo
  <2> QED BY <2>1, <2>2
<1>3. PICK c, pl : pl = Plain(n) /\ c = SubSeq(pl, t + 1, upTo)
  OBVIOUS
<1>4. pl \in Seq(Nat) /\ Len(pl) = n /\ \A i \in 1 .. n : pl[i] = i
  BY <1>3 DEF Plain
<1>5. Part(Nat, c, pl, t + 1, upTo)
  <2>1. t + 1 \in Nat /\ t + 1 >= 1 /\ upTo <= Len(pl)
    BY <1>2, <1>4
  <2> QED BY <1>2, <1>3, <1>4, <2>1, Parted, Zenon
<1>6. PICK u, u2 : u = wr.buffer /\ u2 = u \o c
  OBVIOUS
<1>7. u \in Seq(Nat) /\ Len(u) \in Nat
  BY <1>6 DEF Writers
<1>8. Appends(Nat, u2, u, c)
  <2>1. c \in Seq(Nat)
    BY <1>5 DEF Part
  <2> QED BY <1>6, <1>7, <2>1, Appended, Zenon
<1>9. wr2 = [wr EXCEPT !.taken = upTo, !.buffer = u2]
  BY <1>0, <1>1, <1>3, <1>6
<1>10. u2 \in Seq(Nat)
  BY <1>8 DEF Appends
<1>11. /\ wr2 \in Writers /\ wr2.taken = upTo /\ wr2.buffer = u2 /\ wr2.size = n /\ wr2.fb = w
       /\ wr2.index = j /\ wr2.phase = wr.phase
  BY <1>1, <1>2, <1>9, <1>10 DEF Writers
<1>12. PICK b \in Nat, l \in Nat : b = j * w /\ l = Len(u)
  <2>1. j * w \in Nat
    OBVIOUS
  <2> QED BY <1>7, <2>1, Zenon
<1>13. b + l = t /\ \A i \in 1 .. l : u[i] = b + i
  BY <1>1, <1>6, <1>12 DEF Sealing
<1>14. Len(c) = upTo - t /\ Len(u2) = l + (upTo - t)
  BY <1>2, <1>5, <1>8, <1>12 DEF Part, Appends
<1>15. ASSUME NEW i \in 1 .. Len(u2) PROVE u2[i] = b + i
  <2>1. i \in 1 .. l + (upTo - t)
    BY <1>14
  <2>2. CASE i \in 1 .. l
    <3>1. u2[i] = u[i]
      BY <1>8, <1>12, <2>2 DEF Appends
    <3> QED BY <1>13, <2>2, <3>1
  <2>3. CASE i \notin 1 .. l
    <3>1. PICK q \in 1 .. upTo - t : i = l + q
      <4>1. i - l \in 1 .. upTo - t /\ i = l + (i - l)
        BY <1>2, <2>1, <2>3
      <4> QED BY <4>1
    <3>2. u2[l + q] = c[q]
      BY <1>8, <1>12, <1>14 DEF Appends
    <3>3. c[q] = pl[t + 1 + q - 1]
      BY <1>5, <1>14 DEF Part
    <3>4. t + 1 + q - 1 = t + q /\ t + q \in 1 .. n /\ t + q = b + (l + q)
      BY <1>2, <1>13
    <3> QED BY <1>4, <3>1, <3>2, <3>3, <3>4
  <2> QED BY <2>2, <2>3
<1>16. b + Len(u2) = upTo /\ (l > 0 => Len(u2) > 0)
  BY <1>2, <1>13, <1>14
<1>17. j > 0 => Len(u2) > 0
  BY <1>1, <1>6, <1>12, <1>16 DEF Sealing
<1>18. Holds(o, n, w, j) /\ Len(o) = ciphertext_offset(j, w)
  BY <1>1 DEF Sealing
<1>19. Sealing(wr2, o)
  BY <1>2, <1>11, <1>12, <1>15, <1>16, <1>17, <1>18 DEF Sealing
<1> QED BY <1>1, <1>11, <1>19

(* The data of a frame is what the buffer begins with.                     *)
LEMMA BufferIsData ==
    ASSUME NEW n \in Nat, NEW w \in Nat, w > 0, NEW j \in Nat, Valid(n, w, j),
           NEW u, u \in Seq(Nat), Len(u) = Len(Data(n, w, j)),
           \A i \in 1 .. Len(u) : u[i] = j * w + i
    PROVE  u = Data(n, w, j)
<1>1. Data(n, w, j) \in Seq(Nat)
  BY DataOf
<1>2. \A i \in 1 .. Len(u) : u[i] = Data(n, w, j)[i]
  BY DataByte
<1> QED BY <1>1, <1>2, SameCells

(* A full frame, with more to follow.                                      *)
Seals(wr, o, o2, wr2) ==
    /\ Len(wr.buffer) > wr.fb
    /\ o2 = o \o _seal_frame(SubSeq(wr.buffer, 1, wr.fb), wr.index, FALSE)
    /\ wr2 = [wr EXCEPT !.index = @ + 1, !.buffer = SubSeq(@, wr.fb + 1, Len(@))]

(* The frame lies in its place and holds its bytes, and is not the last.   *)
LEMMA FrameSealing ==
    ASSUME NEW wr \in Writers, NEW o, Sealing(wr, o), NEW o2, NEW wr2, Seals(wr, o, o2, wr2)
    PROVE  /\ wr2 \in Writers /\ Sealing(wr2, o2)
           /\ wr2.size = wr.size /\ wr2.fb = wr.fb /\ wr2.phase = wr.phase
<1>0. /\ Len(wr.buffer) > wr.fb
      /\ o2 = o \o _seal_frame(SubSeq(wr.buffer, 1, wr.fb), wr.index, FALSE)
      /\ wr2 = [wr EXCEPT !.index = @ + 1, !.buffer = SubSeq(@, wr.fb + 1, Len(@))]
  BY Zenon DEF Seals
<1>1. PICK n \in Nat, w \in Nat, t \in Nat, j \in Nat :
         n = wr.size /\ w = wr.fb /\ t = wr.taken /\ j = wr.index /\ w > 0
  BY FramingNumbers DEF Writers
<1>2. PICK u : u = wr.buffer
  OBVIOUS
<1>3. u \in Seq(Nat)
  BY <1>2 DEF Writers
<1>4. PICK b \in Nat, l \in Nat : b = j * w /\ l = Len(u)
  BY <1>3
<1>5. b + l = t /\ t <= n /\ l > w /\ \A i \in 1 .. l : u[i] = b + i
  BY <1>0, <1>1, <1>2, <1>4 DEF Sealing
<1>6. (j + 1) * w = b + w /\ b + w < n
  BY <1>4, <1>5
<1>7. Valid(n, w, j) /\ IsFinal(n, w, j) = FALSE
  BY <1>4, <1>6 DEF Valid, IsFinal
<1>8. Len(Data(n, w, j)) = w
  BY <1>1, <1>6, <1>7, DataOf
<1>9. PICK c, u2 : c = SubSeq(u, 1, w) /\ u2 = SubSeq(u, w + 1, l)
  OBVIOUS
<1>10. Part(Nat, c, u, 1, w) /\ Part(Nat, u2, u, w + 1, l)
  <2>1. 1 \in Nat /\ 1 >= 1 /\ w <= Len(u) /\ w + 1 \in Nat /\ w + 1 >= 1 /\ l <= Len(u)
    BY <1>4, <1>5
  <2>2. Part(Nat, c, u, 1, w)
    BY <1>1, <1>3, <1>9, <2>1, Parted, Zenon
  <2>3. Part(Nat, u2, u, w + 1, l)
    BY <1>3, <1>4, <1>9, <2>1, Parted, Zenon
  <2> QED BY <2>2, <2>3
<1>11. Len(c) = w /\ Len(u2) = l - w /\ c \in Seq(Nat) /\ u2 \in Seq(Nat)
  <2>1. Len(c) = w /\ c \in Seq(Nat)
    <3>1. Len(c) = (IF 1 <= w THEN w - 1 + 1 ELSE 0) /\ c \in Seq(Nat)
      BY <1>10 DEF Part
    <3>2. w > 0
      BY <1>1
    <3> QED BY <3>1, <3>2
  <2>2. Len(u2) = l - w /\ u2 \in Seq(Nat)
    <3>1. Len(u2) = (IF w + 1 <= l THEN l - (w + 1) + 1 ELSE 0) /\ u2 \in Seq(Nat)
      BY <1>10 DEF Part
    <3>2. l > w
      BY <1>5
    <3> QED BY <3>1, <3>2
  <2> QED BY <2>1, <2>2
<1>12. c = Data(n, w, j)
  <2>1. ASSUME NEW i \in 1 .. Len(c) PROVE c[i] = j * w + i
    <3>1. c[i] = u[1 + i - 1]
      BY <1>10 DEF Part
    <3>2. 1 + i - 1 = i /\ i \in 1 .. l
      BY <1>5, <1>11
    <3> QED BY <1>4, <1>5, <3>1, <3>2
  <2>2. w > 0 /\ Len(c) = Len(Data(n, w, j)) /\ c \in Seq(Nat)
    BY <1>1, <1>8, <1>11
  <2> QED BY <1>7, <2>1, <2>2, BufferIsData
<1>13. o2 = o \o _seal_frame(Data(n, w, j), j, IsFinal(n, w, j))
  BY <1>0, <1>1, <1>2, <1>7, <1>9, <1>12
<1>14. Holds(o, n, w, j) /\ Len(o) = ciphertext_offset(j, w)
  BY <1>1 DEF Sealing
<1>15. Holds(o2, n, w, j + 1) /\ Len(o2) = ciphertext_offset(j, w) + w + FrameOverhead
  <2>1. w > 0 /\ Valid(n, w, j)
    BY <1>1, <1>7
  <2>2. Holds(o2, n, w, j + 1)
          /\ Len(o2) = ciphertext_offset(j, w) + Len(Data(n, w, j)) + FrameOverhead
    <3>1. Whole(o2, n, w, j)
      BY <1>13, <1>14, <2>1, FrameAppended
    <3> QED BY <3>1 DEF Whole
  <2> QED BY <1>8, <2>2
<1>16. Len(o2) = ciphertext_offset(j + 1, w)
  BY <1>15, Offsets
<1>17. wr2 = [wr EXCEPT !.index = j + 1, !.buffer = u2]
  BY <1>0, <1>1, <1>2, <1>4, <1>9 DEF Writers
<1>18. /\ wr2 \in Writers /\ wr2.taken = t /\ wr2.buffer = u2 /\ wr2.size = n /\ wr2.fb = w
       /\ wr2.index = j + 1 /\ wr2.phase = wr.phase
  <2>1. j + 1 \in Nat /\ u2 \in Seq(Nat)
    BY <1>11
  <2> QED BY <1>1, <1>17, <2>1 DEF Writers
<1>19. ASSUME NEW i \in 1 .. Len(u2) PROVE u2[i] = (j + 1) * w + i
  <2>1. u2[i] = u[w + 1 + i - 1]
    BY <1>10 DEF Part
  <2>2. w + 1 + i - 1 = w + i /\ w + i \in 1 .. l /\ b + (w + i) = (b + w) + i
    BY <1>5, <1>11
  <2> QED BY <1>5, <1>6, <2>1, <2>2
<1>20. (j + 1) * w + Len(u2) = t /\ Len(u2) > 0
  BY <1>5, <1>6, <1>11
<1>21. Sealing(wr2, o2)
  BY <1>5, <1>15, <1>16, <1>18, <1>19, <1>20 DEF Sealing
<1> QED BY <1>1, <1>18, <1>21

(* The last frame.                                                         *)
LEMMA LastSealing ==
    ASSUME NEW wr \in Writers, NEW o, Sealing(wr, o), NEW o2, NEW wr2
    PROVE  /\ wr.taken = wr.size /\ ~ Len(wr.buffer) > wr.fb
           /\ o2 = o \o _seal_frame(wr.buffer, wr.index, TRUE)
           /\ wr2 = [wr EXCEPT !.phase = "stored"]
           => /\ wr2 \in Writers /\ Kept(wr2, o2, "none")
              /\ wr2.size = wr.size /\ wr2.fb = wr.fb /\ wr2.phase = "stored"
<1>0. SUFFICES ASSUME wr.taken = wr.size, ~ Len(wr.buffer) > wr.fb,
                      o2 = o \o _seal_frame(wr.buffer, wr.index, TRUE),
                      wr2 = [wr EXCEPT !.phase = "stored"]
               PROVE  /\ wr2 \in Writers /\ Kept(wr2, o2, "none")
                      /\ wr2.size = wr.size /\ wr2.fb = wr.fb /\ wr2.phase = "stored"
  BY Zenon
<1>1. PICK n \in Nat, w \in Nat, j \in Nat : n = wr.size /\ w = wr.fb /\ j = wr.index /\ w > 0
  BY FramingNumbers DEF Writers
<1>2. PICK u : u = wr.buffer
  OBVIOUS
<1>3. u \in Seq(Nat)
  BY <1>2 DEF Writers
<1>4. PICK b \in Nat, l \in Nat : b = j * w /\ l = Len(u)
  BY <1>3
<1>5. b + l = n /\ l <= w /\ (j > 0 => l > 0) /\ \A i \in 1 .. l : u[i] = b + i
  BY <1>0, <1>1, <1>2, <1>4, SMTT(20) DEF Sealing
<1>6. (j + 1) * w = b + w
  BY <1>4
<1>7. Valid(n, w, j) /\ IsFinal(n, w, j) = TRUE
  BY <1>4, <1>5, <1>6 DEF Valid, IsFinal
<1>8. Len(Data(n, w, j)) = l
  <2>1. Len(Data(n, w, j)) = IF b + w <= n THEN w ELSE n - b
    <3>1. w > 0
      BY <1>1
    <3>2. Len(Data(n, w, j)) = IF (j + 1) * w <= n THEN w ELSE n - j * w
      BY <1>7, <3>1, DataOf
    <3> QED BY <1>4, <1>6, <3>2
  <2> QED BY <1>5, <2>1
<1>9. u = Data(n, w, j)
  <2>1. w > 0
    BY <1>1
  <2>2. Len(u) = Len(Data(n, w, j))
    BY <1>4, <1>8
  <2>3. \A i \in 1 .. Len(u) : u[i] = j * w + i
    BY <1>4, <1>5
  <2> QED BY <1>3, <1>7, <2>1, <2>2, <2>3, BufferIsData
<1>10. o2 = o \o _seal_frame(Data(n, w, j), j, IsFinal(n, w, j))
  BY <1>0, <1>1, <1>2, <1>7, <1>9
<1>11. Holds(o, n, w, j) /\ Len(o) = ciphertext_offset(j, w)
  BY <1>1 DEF Sealing
<1>12. Whole(o2, n, w, j)
  <2>1. w > 0 /\ Valid(n, w, j)
    BY <1>1, <1>7
  <2> QED BY <1>10, <1>11, <2>1, FrameAppended
<1>13. wr2 \in Writers /\ wr2.size = n /\ wr2.fb = w /\ wr2.index = j /\ wr2.phase = "stored"
  BY <1>0, <1>1 DEF Writers
<1>14. o2 \in Seq(TrueCells(n, w)) /\ InPlace(o2, w)
  BY <1>12 DEF Whole, Holds
<1> QED BY <1>1, <1>7, <1>12, <1>13, <1>14 DEF Kept

-----------------------------------------------------------------------------
(* Damage.                                                                 *)
(* An object loses its end.                                                *)
LEMMA CutKept ==
    ASSUME NEW wr, NEW o, Kept(wr, o, "none"), NEW k \in Nat, k < Len(o)
    PROVE  Kept(wr, SubSeq(o, 1, k), "truncated")
<1>1. PICK T : T = TrueCells(wr.size, wr.fb)
  OBVIOUS
<1>2. o \in Seq(T)
  BY <1>1 DEF Kept
<1>3. PICK z : z = SubSeq(o, 1, k)
  OBVIOUS
<1>4. Part(T, z, o, 1, k)
  <2>1. k <= Len(o) /\ 1 \in Nat /\ 1 >= 1
    BY <1>2
  <2> QED BY <1>2, <1>3, <2>1, Parted, Zenon
<1>5. Len(z) = k /\ z \in Seq(T)
  BY <1>4 DEF Part
<1>6. ASSUME NEW p \in 1 .. Len(z) PROVE p \in 1 .. Len(o) /\ z[p] = o[p]
  <2>1. z[p] = o[1 + p - 1] /\ 1 + p - 1 = p
    BY <1>4, <1>5 DEF Part
  <2> QED BY <1>2, <1>5, <2>1
<1>7. InPlace(z, wr.fb)
  <2>1. InPlace(o, wr.fb)
    BY DEF Kept
  <2> QED BY <1>6, <2>1 DEF InPlace
<1> QED BY <1>1, <1>3, <1>5, <1>7 DEF Kept

(* A cell is of another version.                                           *)
LEMMA OtherCell ==
    ASSUME NEW n, NEW w, NEW c \in TrueCells(n, w)
    PROVE  [c EXCEPT !.version = "other"] \in TrueCells(n, w)
             /\ [c EXCEPT !.version = "other"].version = "other"
<1>1. CASE c \in OddCells
  BY <1>1 DEF OddCells, TrueCells
<1>2. CASE c \in FrameCells
  <2>1. [c EXCEPT !.version = "other"] \in FrameCells
          /\ [c EXCEPT !.version = "other"].version = "other"
    BY <1>2 DEF FrameCells
  <2> QED BY <2>1 DEF TrueCells
<1> QED BY <1>1, <1>2 DEF TrueCells

(* A cell of another version authenticates nowhere.                        *)
LEMMA SwappedKept ==
    ASSUME NEW wr, NEW o, Kept(wr, o, "none"), NEW k \in DOMAIN o
    PROVE  Kept(wr, [o EXCEPT ![k].version = "other"], "substituted")
<1>1. PICK T : T = TrueCells(wr.size, wr.fb)
  OBVIOUS
<1>2. o \in Seq(T) /\ k \in 1 .. Len(o) /\ Len(o) \in Nat
  BY <1>1 DEF Kept
<1>3. PICK c : c = [o[k] EXCEPT !.version = "other"] /\ c \in T /\ c.version = "other"
  <2>1. o[k] \in TrueCells(wr.size, wr.fb)
    BY <1>1, <1>2
  <2> QED BY <1>1, <2>1, OtherCell
<1>4. PICK z : z = [o EXCEPT ![k] = c]
  OBVIOUS
<1>5. z = [o EXCEPT ![k].version = "other"]
  BY <1>3, <1>4
<1>6. z \in Seq(T) /\ Len(z) = Len(o) /\ \A p \in 1 .. Len(o) : z[p] = IF p = k THEN c ELSE o[p]
  BY <1>2, <1>3, <1>4
<1>7. InPlace(z, wr.fb)
  <2>1. InPlace(o, wr.fb)
    BY DEF Kept
  <2> QED BY <1>3, <1>6, <2>1 DEF InPlace
<1> QED BY <1>1, <1>5, <1>6, <1>7 DEF Kept

(* Frames are moved about.                                                 *)
LEMMA RearrangedKept ==
    ASSUME NEW wr \in Writers, NEW o, Kept(wr, o, "none"), NEW ss, NEW l \in Nat, l > 0,
           Len(ss) = l,
           \A i \in 1 .. l : ss[i] \in Seq(TrueCells(wr.size, wr.fb))
    PROVE  Kept(wr, Header(wr.fb) \o FlattenSeq(ss), "rearranged")
<1>1. PICK T : T = TrueCells(wr.size, wr.fb)
  OBVIOUS
<1>2. PICK z : z = FlattenSeq(ss) /\ z \in Seq(T)
  BY <1>1, FlattenIn
<1>3. PICK h : h = Header(wr.fb) /\ h \in Seq(T)
  <2>1. wr.size \in Nat /\ wr.fb \in Nat /\ wr.fb > 0
    BY FramingNumbers DEF Writers
  <2> QED BY <1>1, <2>1, HeaderHolds DEF Holds
<1>4. h \o z \in Seq(T)
  BY <1>2, <1>3
<1> QED BY <1>1, <1>2, <1>3, <1>4 DEF Kept

(* The length of an intact object, and the number of its frames.           *)
LEMMA IntactSize ==
    ASSUME NEW n \in Nat, NEW w \in Nat, w > 0, NEW j, Valid(n, w, j), IsFinal(n, w, j),
           NEW o, Whole(o, n, w, j)
    PROVE  Len(o) = ciphertext_size(n, w) /\ j + 1 = frame_count(n, w)
<1>1. PICK b \in Nat, l \in Nat, f \in Nat :
        b = j * w /\ l = Len(Data(n, w, j)) /\ f = w + FrameOverhead /\ f > 0
  <2>1. j * w \in Nat /\ Len(Data(n, w, j)) \in Nat
    BY DataOf
  <2> QED BY <2>1, FramingNumbers
<1>2. b + l = n /\ l <= w /\ j \in Nat /\ (j > 0 => b < n) /\ (j + 1) * w = b + w
  <2>1. j * w + Len(Data(n, w, j)) = n /\ Len(Data(n, w, j)) <= w
    BY DataOf
  <2>2. (j + 1) * w = j * w + w
    BY DataOf
  <2>3. j \in Nat /\ (j > 0 => j * w < n)
    BY DEF Valid
  <2> QED BY <1>1, <2>1, <2>2, <2>3
<1>3. Len(o) = HeaderCells + j * f + l + FrameOverhead
  BY <1>1 DEF Whole, ciphertext_offset
<1>4. PICK q \in Nat, g \in Nat : q = j * f /\ g = (j + 1) * f /\ g = q + f
  <2>1. j \in Nat
    BY <1>2
  <2>2. j * f \in Nat /\ (j + 1) * f = j * f + f
    BY <2>1
  <2>3. j * f + f \in Nat
    BY <2>2
  <2> QED BY <2>2, <2>3
<1>5. j + 1 = frame_count(n, w)
  <2>1. CASE n = 0
    BY <1>2, <2>1 DEF frame_count
  <2>2. CASE n > 0
    <3>1. l > 0
      <4>1. CASE j = 0
        <5>1. b = 0
          BY <1>1, <4>1
        <5> QED BY <1>2, <2>2, <5>1
      <4>2. CASE j > 0
        BY <1>2, <4>2
      <4> QED BY <1>2, <4>1, <4>2
    <3>2. PICK r \in Nat : r = l - 1 /\ r < w
      BY <1>2, <3>1
    <3>3. n + w - 1 = (j + 1) * w + r
      BY <1>2, <3>2
    <3>4. ((j + 1) * w + r) \div w = j + 1
      <4>1. j + 1 \in Nat
        BY <1>2
      <4> QED BY <3>2, <4>1, QuotientUnique
    <3> QED BY <2>2, <3>3, <3>4 DEF frame_count
  <2> QED BY <2>1, <2>2
<1>6. CASE l = w
  <2>1. n = (j + 1) * w + 0 /\ j + 1 \in Nat
    BY <1>2, <1>6
  <2>2. n \div w = j + 1 /\ n % w = 0
    BY <2>1, QuotientUnique
  <2>3. ~ (n % w # 0 \/ n = 0)
    BY <1>2, <1>6, <2>2
  <2>4. ciphertext_size(n, w) = HeaderCells + (j + 1) * f + 0
    BY <1>1, <2>2, <2>3 DEF ciphertext_size
  <2> QED BY <1>1, <1>3, <1>4, <1>5, <1>6, <2>4, FramingNumbers, SMTT(20)
<1>7. CASE l < w
  <2>1. n = j * w + l
    BY <1>1, <1>2
  <2>2. n \div w = j /\ n % w = l
    BY <1>2, <1>7, <2>1, QuotientUnique, SMTT(20)
  <2>3. n % w # 0 \/ n = 0
    <3>1. CASE j = 0
      <4>1. b = 0
        BY <1>1, <3>1
      <4> QED BY <1>2, <2>2, <4>1
    <3>2. CASE j > 0
      BY <1>2, <2>2, <3>2
    <3> QED BY <1>2, <3>1, <3>2
  <2>4. ciphertext_size(n, w) = HeaderCells + j * f + (l + FrameOverhead)
    BY <1>1, <2>2, <2>3 DEF ciphertext_size
  <2> QED BY <1>3, <1>4, <1>5, <2>4, FramingNumbers
<1> QED BY <1>2, <1>6, <1>7

-----------------------------------------------------------------------------
(* Reads begin.                                                            *)
(* A range that is served lies in the plaintext.                           *)
LEMMA RangeParsed ==
    ASSUME NEW n \in Nat, NEW first \in {Absence} \cup 0 .. n,
           NEW last \in {Absence} \cup 0 .. n,
           NEW g, g = parse_range(first, last, n), g # Absence
    PROVE  g \in [start : Nat, length : Nat] /\ g.length > 0 /\ g.start + g.length <= n
<1>1. PICK end : end = IF last = Absence THEN n - 1 ELSE Min({last, n - 1})
  OBVIOUS
<1>2. PICK tail : tail = Min({last, n})
  OBVIOUS
<1>3. g = IF n = 0 \/ (first = Absence /\ last = Absence) THEN Absence
          ELSE IF first = Absence
               THEN IF tail = 0 THEN Absence ELSE [start |-> n - tail, length |-> tail]
          ELSE IF first >= n \/ end < first THEN Absence
               ELSE [start |-> first, length |-> end - first + 1]
  BY <1>1, <1>2 DEF parse_range
<1>4. n # 0 /\ ~ (first = Absence /\ last = Absence)
  BY <1>3
<1>5. CASE first = Absence
  <2>1. last \in 0 .. n
    BY <1>4, <1>5
  <2>2. tail = last
    <3>1. Min({last, n}) = IF last <= n THEN last ELSE n
      BY <2>1, MinOfTwo
    <3> QED BY <1>2, <2>1, <3>1
  <2>3. g = [start |-> n - last, length |-> last] /\ last # 0
    BY <1>3, <1>4, <1>5, <2>2
  <2>4. n - last \in Nat /\ last \in Nat /\ last > 0 /\ (n - last) + last <= n
    BY <2>1, <2>3
  <2> QED BY <2>3, <2>4
<1>6. CASE first # Absence
  <2>1. first \in 0 .. n
    BY <1>6
  <2>2. end \in Int /\ end <= n - 1
    <3>1. CASE last = Absence
      BY <1>1, <3>1
    <3>2. CASE last # Absence
      <4>1. Min({last, n - 1}) = IF last <= n - 1 THEN last ELSE n - 1
        BY <3>2, MinOfTwo
      <4> QED BY <1>1, <3>2, <4>1
    <3> QED BY <3>1, <3>2
  <2>3. g = [start |-> first, length |-> end - first + 1] /\ ~ end < first
    BY <1>3, <1>4, <1>6
  <2>4. PICK l \in Nat : l = end - first + 1 /\ l > 0 /\ first + l <= n
    <3>1. end - first + 1 \in Nat /\ end - first + 1 > 0 /\ first + (end - first + 1) <= n
      BY <2>1, <2>2, <2>3
    <3> QED BY <3>1
  <2> QED BY <2>1, <2>3, <2>4
<1> QED BY <1>5, <1>6

(* A record of a read.                                                     *)
LEMMA ReaderRecord ==
    ASSUME NEW T, NEW ph \in {"idle", "header", "frames", "done", "failed"},
           NEW g \in {Absence} \cup [start : Nat, length : Nat], NEW sr \in Seq(T),
           NEW bu \in Seq(T),
           NEW fb \in Nat, NEW i \in Nat, NEW sk \in Nat, NEW le \in Nat \cup {Absence},
           NEW fi \in BOOLEAN, NEW ou \in Seq(Nat)
    PROVE  [phase |-> ph, range |-> g, source |-> sr, buffer |-> bu, fb |-> fb,
            index |-> i, skip |-> sk, left |-> le, final |-> fi, out |-> ou] \in Readers(T)
BY DEF Readers

(* An empty buffer.                                                        *)
LEMMA NoneYet == \A T : <<>> \in Seq(T)
OBVIOUS

(* A read of everything begins.                                            *)
LEMMA WholeBegins ==
    ASSUME NEW n \in Nat, NEW w \in Nat, NEW o, o \in Seq(TrueCells(n, w)), NEW d,
           NEW r
    PROVE  r = [Idle EXCEPT !.phase = "header", !.source = o]
           => ReaderOK(r, n, w, o, d) /\ Untouched(r, w)
<1>0. SUFFICES ASSUME r = [Idle EXCEPT !.phase = "header", !.source = o]
               PROVE  ReaderOK(r, n, w, o, d) /\ Untouched(r, w)
  BY Zenon
<1>1. /\ r.phase = "header" /\ r.range = Absence /\ r.skip = 0 /\ r.left = Absence
           /\ r.buffer = <<>>
      /\ r.source = o /\ r.final = FALSE /\ r.index = 0 /\ r.out = <<>> /\ r.fb = 0
  BY <1>0 DEF Idle
<1>2. r \in Readers(TrueCells(n, w))
  <2>1. PICK T : T = TrueCells(n, w) /\ o \in Seq(T) /\ <<>> \in Seq(T) /\ <<>> \in Seq(Nat)
    BY NoneYet, Zenon
  <2>2. r = [phase |-> "header", range |-> Absence, source |-> o, buffer |-> <<>>, fb |-> 0,
             index |-> 0, skip |-> 0, left |-> Absence, final |-> FALSE, out |-> <<>>]
    BY <1>0 DEF Idle
  <2>3. PICK le \in Nat \cup {Absence}, g \in {Absence} \cup [start : Nat, length : Nat] :
          le = Absence /\ g = Absence
    OBVIOUS
  <2> QED BY <2>1, <2>2, <2>3, ReaderRecord
<1>3. Len(<<>>) = 0 /\ 0 * w = 0 /\ 1 .. 0 = {} /\ Len(o) \in Nat
  OBVIOUS
<1>4. WholeRead(r, n, w)
  BY <1>1, <1>3 DEF WholeRead, Valid
<1>5. TrueOut(r)
  BY <1>1, <1>3 DEF TrueOut
<1>6. Window(o, 0, Len(o), <<>>, o)
  BY <1>3 DEF Window
<1>7. Base(r) = 0 /\ End(r, o) = Len(o)
  BY <1>1 DEF Base, End
<1> QED BY <1>1, <1>2, <1>4, <1>5, <1>6, <1>7 DEF ReaderOK, Untouched

(* A read of a range begins.                                               *)
Begins(o, g, fb, to, src, i, sk, r) ==
    /\ to = Min({ciphertext_offset(frames_for_range(g, fb).last + 1, fb), Len(o)})
    /\ src = SubSeq(o, ciphertext_offset(g.start \div fb, fb) + 1, to)
    /\ i = g.start \div fb /\ sk = g.start % fb
    /\ r = [Idle EXCEPT !.phase = "frames", !.range = g, !.fb = fb, !.source = src,
                        !.index = i, !.skip = sk, !.left = g.length]

(* The read has come to its place in the first frame of its range.         *)
LEMMA RangeBegins ==
    ASSUME NEW n \in Nat, NEW w \in Nat, w > 0, NEW o, o \in Seq(TrueCells(n, w)), NEW d,
           NEW g \in [start : Nat, length : Nat], g.length > 0, g.start + g.length <= n,
           g # Absence,
           NEW fb \in Nat, fb > 0, NEW to, NEW src, NEW r, NEW i, NEW sk,
           Begins(o, g, fb, to, src, i, sk, r)
    PROVE  ReaderOK(r, n, w, o, d) /\ Untouched(r, w)
<1>0. /\ to = Min({ciphertext_offset(frames_for_range(g, fb).last + 1, fb), Len(o)})
      /\ src = SubSeq(o, ciphertext_offset(g.start \div fb, fb) + 1, to)
      /\ i = g.start \div fb /\ sk = g.start % fb
  BY Zenon DEF Begins
<1>1. PICK st \in Nat, l \in Nat : st = g.start /\ l = g.length /\ l > 0 /\ st + l <= n
  OBVIOUS
<1>2. i \in Nat /\ sk \in Nat /\ sk < fb /\ st = i * fb + sk
  <2>1. PICK q \in Nat, m \in Nat : st \div fb = q /\ st % fb = m /\ m < fb /\ st = q * fb + m
    BY Quotient
  <2>2. i = q /\ sk = m
    BY <1>0, <1>1, <2>1
  <2> QED BY <2>1, <2>2
<1>3. PICK la \in Nat : la = frames_for_range(g, fb).last
  <2>1. frames_for_range(g, fb).last = (g.start + g.length - 1) \div fb
    BY DEF frames_for_range
  <2>2. PICK m \in Nat : m = g.start + g.length - 1
    <3>1. st + l - 1 \in Nat
      BY <1>1
    <3> QED BY <1>1, <3>1
  <2>3. m \div fb \in Nat
    BY Quotient
  <2> QED BY <2>1, <2>2, <2>3
<1>4. PICK e \in Nat, b \in Nat, lo \in Nat :
        e = ciphertext_offset(la + 1, fb) /\ b = ciphertext_offset(i, fb) /\ lo = Len(o)
  <2>1. ciphertext_offset(la + 1, fb) \in Nat /\ ciphertext_offset(i, fb) \in Nat
    <3>1. la + 1 \in Nat
      OBVIOUS
    <3> QED BY <1>2, <3>1, Offsets
  <2>2. Len(o) \in Nat
    OBVIOUS
  <2> QED BY <2>1, <2>2
<1>5. to \in Nat /\ to <= lo
  <2>1. to = Min({e, lo})
    BY <1>0, <1>3, <1>4
  <2>2. Min({e, lo}) = IF e <= lo THEN e ELSE lo
    BY MinOfTwo
  <2> QED BY <2>1, <2>2
<1>6. src = SubSeq(o, b + 1, to)
  BY <1>0, <1>4
<1>7. Window(o, b, to, <<>>, src) /\ src \in Seq(TrueCells(n, w))
  BY <1>4, <1>5, <1>6, WindowOpened
<1>8. r = [Idle EXCEPT !.phase = "frames", !.range = g, !.fb = fb, !.source = src,
                       !.index = i, !.skip = sk, !.left = g.length]
  BY Zenon DEF Begins
<1>9. /\ r.phase = "frames" /\ r.range = g /\ r.skip = sk /\ r.left = l /\ r.buffer = <<>>
      /\ r.source = src /\ r.final = FALSE /\ r.index = i /\ r.out = <<>> /\ r.fb = fb
  BY <1>1, <1>8 DEF Idle
<1>10. r \in Readers(TrueCells(n, w))
  <2>1. PICK T : T = TrueCells(n, w) /\ src \in Seq(T) /\ <<>> \in Seq(T) /\ <<>> \in Seq(Nat)
    BY <1>7, NoneYet, Zenon
  <2>2. r = [phase |-> "frames", range |-> g, source |-> src, buffer |-> <<>>, fb |-> fb,
             index |-> i, skip |-> sk, left |-> l, final |-> FALSE, out |-> <<>>]
    BY <1>1, <1>8 DEF Idle
  <2>3. g \in {Absence} \cup [start : Nat, length : Nat] /\ l \in Nat \cup {Absence}
    OBVIOUS
  <2> QED BY <1>2, <2>1, <2>2, <2>3, ReaderRecord
<1>11. Len(<<>>) = 0 /\ 1 .. 0 = {} /\ l = l - 0 /\ st + 0 = st
  OBVIOUS
<1>13. RangeRead(r, n, w, d)
  <2>1. fb = w => Come(r, w)
    BY <1>1, <1>2, <1>9, <1>11 DEF Come
  <2>2. Lost(r)
    BY <1>1, <1>2, <1>9, <1>11 DEF Lost
  <2> QED BY <1>1, <1>9, <1>11, <2>1, <2>2 DEF RangeRead
<1>14. TrueOut(r)
  BY <1>9, <1>11 DEF TrueOut
<1>15. Base(r) = b /\ End(r, o) = to
  BY <1>0, <1>4, <1>9 DEF Base, End
<1> QED BY <1>7, <1>9, <1>10, <1>13, <1>14, <1>15 DEF ReaderOK, Untouched

-----------------------------------------------------------------------------
(* Chunks, the end and the header.                                         *)
(* What a record of a read has in its fields.                              *)
LEMMA ReaderFields ==
    ASSUME NEW T, NEW r \in Readers(T)
    PROVE  /\ r.source \in Seq(T) /\ r.buffer \in Seq(T) /\ r.fb \in Nat /\ r.index \in Nat
           /\ r.skip \in Nat /\ r.left \in Nat \cup {Absence} /\ r.final \in BOOLEAN
           /\ r.out \in Seq(Nat) /\ r.range \in {Absence} \cup [start : Nat, length : Nat]
           /\ Len(r.out) \in Nat /\ Len(r.buffer) \in Nat /\ Len(r.source) \in Nat
BY DEF Readers

(* The cells from which to which a read looks.                             *)
LEMMA Bounds ==
    ASSUME NEW T, NEW r \in Readers(T), NEW o, o \in Seq(T),
           r.range = Absence \/ (r.fb > 0 /\ r.range.length > 0)
    PROVE  Base(r) \in Nat /\ End(r, o) \in Nat /\ End(r, o) <= Len(o)
<1>1. r.fb \in Nat /\ r.index \in Nat /\ r.range \in {Absence} \cup [start : Nat, length : Nat]
  BY ReaderFields
<1>2. Base(r) \in Nat
  <2>1. ciphertext_offset(r.index, r.fb) \in Nat
    BY <1>1, Offsets
  <2> QED BY <2>1 DEF Base
<1>3. Len(o) \in Nat
  OBVIOUS
<1>4. CASE r.range = Absence
  BY <1>2, <1>3, <1>4 DEF End
<1>5. CASE r.range # Absence
  <2>1. PICK st \in Nat, l \in Nat, fb \in Nat : st = r.range.start /\ l = r.range.length
               /\ fb = r.fb /\ fb > 0 /\ l > 0
    BY <1>1, <1>5
  <2>2. PICK la \in Int : la = (st + l - 1) \div fb
    BY <2>1, SMTT(20)
  <2>3. frames_for_range(r.range, r.fb).last = la
    BY <2>1, <2>2 DEF frames_for_range
  <2>4. PICK e \in Int : e = ciphertext_offset(la + 1, fb)
    <3>1. (la + 1) * (fb + FrameOverhead) \in Int
      BY FramingNumbers
    <3> QED BY <3>1, FramingNumbers DEF ciphertext_offset
  <2>5. la \in Nat
    <3>1. st + l - 1 \in Nat
      BY <2>1
    <3>2. PICK p \in Nat : p = st + l - 1
      BY <3>1
    <3>3. p \div fb \in Nat
      BY <2>1, <3>2, QuotientIsNat
    <3> QED BY <2>2, <3>2, <3>3
  <2>6. e \in Nat
    <3>1. la + 1 \in Nat
      BY <2>5
    <3> QED BY <2>4, <3>1, Offsets
  <2>7. Min({e, Len(o)}) = IF e <= Len(o) THEN e ELSE Len(o)
    BY <1>3, <2>6, MinOfTwo
  <2>8. End(r, o) = Min({e, Len(o)})
    BY <1>5, <2>1, <2>3, <2>4 DEF End
  <2> QED BY <1>2, <1>3, <2>6, <2>7, <2>8
<1> QED BY <1>4, <1>5

(* A chunk of the store arrives.                                           *)
Pulls(r, k, r2) ==
    r2 = [r EXCEPT !.buffer = @ \o SubSeq(r.source, 1, Min({k, Len(r.source)})),
                   !.source = SubSeq(@, k + 1, Len(@))]

(* What is in the buffer and the source lies where it lay.                 *)
LEMMA PulledOK ==
    ASSUME NEW n \in Nat, NEW w \in Nat, NEW o, o \in Seq(TrueCells(n, w)), NEW d,
           NEW r, ReaderOK(r, n, w, o, d), r.phase \in {"header", "frames"},
           NEW k \in Nat, NEW r2, Pulls(r, k, r2)
    PROVE  ReaderOK(r2, n, w, o, d) /\ (Untouched(r, w) => Untouched(r2, w))
<1>0. PICK x2, y2 :
        /\ x2 = r.buffer \o SubSeq(r.source, 1, Min({k, Len(r.source)}))
        /\ y2 = SubSeq(r.source, k + 1, Len(r.source))
        /\ r2 = [r EXCEPT !.buffer = x2, !.source = y2]
  BY DEF Pulls
<1>1. PICK T : T = TrueCells(n, w)
  OBVIOUS
<1>2. r \in Readers(T) /\ o \in Seq(T)
  BY <1>1 DEF ReaderOK
<1>3. PICK x, y : x = r.buffer /\ y = r.source /\ x \in Seq(T) /\ y \in Seq(T)
  BY <1>2, ReaderFields
<1>4. PICK b, e : b = Base(r) /\ e = End(r, o)
  OBVIOUS
<1>5. b \in Nat /\ e \in Nat
  <2>1. r.range = Absence \/ (r.fb > 0 /\ r.range.length > 0)
    BY DEF ReaderOK, RangeRead
  <2> QED BY <1>2, <1>4, <2>1, Bounds
<1>6. Window(o, b, e, x, y)
  BY <1>3, <1>4 DEF ReaderOK
<1>7. Window(o, b, e, x2, y2) /\ x2 \in Seq(T) /\ y2 \in Seq(T)
  <2>1. x2 = Longer(x, y, k) /\ y2 = Without(y, k)
    BY <1>0, <1>3 DEF Longer, Without
  <2> QED BY <1>3, <1>5, <1>6, <2>1, WindowPulled
<1>8. r2 \in Readers(T)
  BY <1>0, <1>2, <1>7 DEF Readers
<1>9. /\ r2.buffer = x2 /\ r2.source = y2 /\ r2.phase = r.phase /\ r2.range = r.range
           /\ r2.fb = r.fb
      /\ r2.index = r.index /\ r2.skip = r.skip /\ r2.left = r.left /\ r2.final = r.final
           /\ r2.out = r.out
  BY <1>0, <1>2 DEF Readers
<1>10. Base(r2) = b /\ End(r2, o) = e
  BY <1>4, <1>9 DEF Base, End
<1>11. WholeRead(r, n, w) => WholeRead(r2, n, w)
  BY <1>9 DEF WholeRead
<1>12. RangeRead(r, n, w, d) => RangeRead(r2, n, w, d)
  BY <1>9 DEF RangeRead, Come, Lost
<1>13. TrueOut(r) \/ Exempt(r, w, d) => TrueOut(r2) \/ Exempt(r2, w, d)
  BY <1>9 DEF TrueOut, First, Exempt
<1>14. Untouched(r, w) => Untouched(r2, w)
  BY <1>9 DEF Untouched
<1>15. ReaderOK(r2, n, w, o, d)
  BY <1>1, <1>7, <1>8, <1>9, <1>10, <1>11, <1>12, <1>13 DEF ReaderOK
<1> QED BY <1>14, <1>15

(* A read ends.                                                            *)
EndsAs(r, ph, r2) == r2 = [r EXCEPT !.phase = ph, !.source = <<>>, !.buffer = <<>>]

(* What came out stays as it is.                                           *)
LEMMA EndedOK ==
    ASSUME NEW n \in Nat, NEW w \in Nat, NEW o, NEW d, NEW r, ReaderOK(r, n, w, o, d),
           r.phase \in {"header", "frames"}, NEW ph \in {"done", "failed"},
           ph = "done" => r.range # Absence \/ r.final, NEW r2, EndsAs(r, ph, r2)
    PROVE  /\ ReaderOK(r2, n, w, o, d) /\ r2.phase = ph /\ r2.range = r.range
           /\ r2.out = r.out /\ r2.fb = r.fb
<1>0. r2 = [r EXCEPT !.phase = ph, !.source = <<>>, !.buffer = <<>>]
  BY DEF EndsAs
<1>1. PICK T : T = TrueCells(n, w)
  OBVIOUS
<1>2. r \in Readers(T) /\ <<>> \in Seq(T)
  BY <1>1, NoneYet DEF ReaderOK
<1>8. r2 \in Readers(T)
  BY <1>0, <1>2 DEF Readers
<1>9. /\ r2.phase = ph /\ r2.range = r.range /\ r2.fb = r.fb
      /\ r2.index = r.index /\ r2.skip = r.skip /\ r2.left = r.left /\ r2.final = r.final
           /\ r2.out = r.out
  BY <1>0, <1>2 DEF Readers
<1>11. r.range = Absence /\ WholeRead(r, n, w) => WholeRead(r2, n, w)
  BY <1>9 DEF WholeRead
<1>12. RangeRead(r, n, w, d) => RangeRead(r2, n, w, d)
  BY <1>9 DEF RangeRead
<1>13. TrueOut(r) \/ Exempt(r, w, d) => TrueOut(r2) \/ Exempt(r2, w, d)
  BY <1>9 DEF TrueOut, First, Exempt
<1>15. ReaderOK(r2, n, w, o, d)
  BY <1>1, <1>8, <1>9, <1>11, <1>12, <1>13 DEF ReaderOK
<1> QED BY <1>9, <1>15

(* The header is read.                                                     *)
Enters(r, fb, r2) ==
    r2 = [r EXCEPT !.phase = "frames", !.fb = fb, !.buffer = SubSeq(@, HeaderCells + 1, Len(@))]

(* The first frame is next.                                                *)
LEMMA HeaderOK ==
    ASSUME NEW n \in Nat, NEW w \in Nat, NEW o, o \in Seq(TrueCells(n, w)), NEW d,
           NEW r, ReaderOK(r, n, w, o, d), r.phase = "header", NEW fb \in Nat, fb > 0,
           HeaderCells <= Len(r.buffer), NEW r2, Enters(r, fb, r2)
    PROVE  ReaderOK(r2, n, w, o, d) /\ (fb = w => Untouched(r2, w))
<1>0. PICK x2 : /\ x2 = SubSeq(r.buffer, HeaderCells + 1, Len(r.buffer))
                /\ r2 = [r EXCEPT !.phase = "frames", !.fb = fb, !.buffer = x2]
  BY DEF Enters
<1>1. PICK T : T = TrueCells(n, w)
  OBVIOUS
<1>2. r \in Readers(T) /\ o \in Seq(T)
  BY <1>1 DEF ReaderOK
<1>3. PICK x, y : x = r.buffer /\ y = r.source /\ x \in Seq(T) /\ y \in Seq(T)
  BY <1>2, ReaderFields
<1>4. r.range = Absence
  BY DEF ReaderOK, RangeRead
<1>5. WholeRead(r, n, w) /\ r.index = 0 /\ r.final = FALSE
  BY <1>2, <1>4 DEF ReaderOK, WholeRead, Readers
<1>6. PICK e \in Nat : e = Len(o)
  BY <1>2
<1>7. Window(o, 0, e, x, y)
  BY <1>3, <1>4, <1>6 DEF ReaderOK, Base, End
<1>8. Window(o, 0 + HeaderCells, e, x2, y) /\ x2 \in Seq(T)
  <2>1. x2 = Without(x, HeaderCells) /\ HeaderCells <= Len(x) /\ HeaderCells \in Nat
    BY <1>0, <1>3, FramingNumbers DEF Without
  <2> QED BY <1>3, <1>7, <2>1, HeaderDropped, Zenon
<1>9. r2 \in Readers(T)
  BY <1>0, <1>2, <1>8 DEF Readers
<1>10. /\ r2.buffer = x2 /\ r2.source = y /\ r2.phase = "frames" /\ r2.range = Absence
            /\ r2.fb = fb
       /\ r2.index = 0 /\ r2.skip = r.skip /\ r2.left = r.left /\ r2.final = FALSE
            /\ r2.out = r.out
  BY <1>0, <1>2, <1>3, <1>4, <1>5 DEF Readers
<1>11. Base(r2) = 0 + HeaderCells /\ End(r2, o) = e
  <2>1. ciphertext_offset(0, fb) = HeaderCells
    BY Offsets
  <2> QED BY <1>6, <1>10, <2>1, FramingNumbers DEF Base, End
<1>12. WholeRead(r2, n, w)
  BY <1>5, <1>10 DEF WholeRead
<1>13. TrueOut(r2)
  BY <1>4, <1>10 DEF ReaderOK, TrueOut, First, Exempt
<1>14. ReaderOK(r2, n, w, o, d)
  BY <1>1, <1>8, <1>9, <1>10, <1>11, <1>12, <1>13 DEF ReaderOK
<1> QED BY <1>10, <1>14 DEF Untouched

-----------------------------------------------------------------------------
(* A frame that opens.                                                     *)
(* With another frame size than the object's, what opens is the first      *)
(* frame: its cells lie where both sizes look for it.                      *)
LEMMA OnlyFirst ==
    ASSUME NEW w \in Nat, NEW fb \in Nat, NEW i \in Nat, fb # w,
           ciphertext_offset(i, fb) = ciphertext_offset(i, w)
    PROVE  i = 0
<1>1. PICK a \in Nat, b \in Nat : a = fb + FrameOverhead /\ b = w + FrameOverhead /\ a # b
  <2>1. fb + FrameOverhead \in Nat /\ w + FrameOverhead \in Nat
          /\ fb + FrameOverhead # w + FrameOverhead
    BY FramingNumbers
  <2> QED BY <2>1
<1>2. i * a = i * b /\ i * a \in Nat /\ a * i = i * a /\ b * i = i * b
  <2>1. HeaderCells + i * a = HeaderCells + i * b
    BY <1>1 DEF ciphertext_offset
  <2>2. i * a \in Nat /\ i * b \in Nat /\ a * i = i * a /\ b * i = i * b
    OBVIOUS
  <2> QED BY <2>1, <2>2, FramingNumbers
<1>3. CASE a < b
  <2>1. (a + 1) * i <= b * i /\ (a + 1) * i = a * i + i
    BY <1>3, TimesMonotonic
  <2> QED BY <1>2, <2>1
<1>4. CASE b < a
  <2>1. (b + 1) * i <= a * i /\ (b + 1) * i = b * i + i
    BY <1>4, TimesMonotonic
  <2> QED BY <1>2, <2>1
<1> QED BY <1>1, <1>3, <1>4

(* A frame that opens is the one the read has come to.                     *)
LEMMA ComeTo ==
    ASSUME NEW n \in Nat, NEW w \in Nat, w > 0, NEW o, NEW d,
           d # "rearranged" => InPlace(o, w), o \in Seq(TrueCells(n, w)),
           NEW r, ReaderOK(r, n, w, o, d), r.phase = "frames", Valid(n, w, r.index),
           Base(r) + 1 \in 1 .. Len(o), o[Base(r) + 1] = SealedCell(n, w, r.index, 1)
    PROVE  /\ r.range = Absence => ~ r.final
           /\ Exempt(r, w, d) \/ r.index * w + r.skip = First(r) + Len(r.out)
           /\ r.range # Absence /\ r.fb # w /\ d # "rearranged" => r.index = 0
<1>1. r \in Readers(TrueCells(n, w))
  BY DEF ReaderOK
<1>2. /\ r.index \in Nat /\ r.skip \in Nat /\ Len(r.out) \in Nat /\ r.fb \in Nat
           /\ r.final \in BOOLEAN
      /\ r.index * w \in Nat
  BY <1>1, ReaderFields
<1>3. CASE r.range = Absence
  <2>1. WholeRead(r, n, w) /\ First(r) = 0
    BY <1>3 DEF ReaderOK, First
  <2>2. ~ r.final
    BY <1>2, <2>1 DEF WholeRead, Valid
  <2>3. Len(r.out) = r.index * w /\ r.skip = 0
    BY <2>1, <2>2 DEF WholeRead
  <2>4. r.index * w + r.skip = First(r) + Len(r.out)
    BY <1>2, <2>1, <2>3
  <2> QED BY <1>3, <2>2, <2>4
<1>4. CASE r.range # Absence
  <2>1. RangeRead(r, n, w, d) /\ First(r) = r.range.start
    BY <1>4 DEF ReaderOK, First
  <2>2. CASE r.fb = w
    BY <1>4, <2>1, <2>2 DEF RangeRead, Come
  <2>3. CASE r.fb # w /\ d = "rearranged"
    BY <1>4, <2>3 DEF Exempt
  <2>4. CASE r.fb # w /\ d # "rearranged"
    <3>1. InPlace(o, w) /\ o[Base(r) + 1].version = "this" /\ o[Base(r) + 1].index = r.index
            /\ o[Base(r) + 1].at = 1
      BY <2>4 DEF SealedCell
    <3>2. Base(r) + 1 = ciphertext_offset(r.index, w) + 1
      BY <3>1, Zenon DEF InPlace
    <3>3. Base(r) = ciphertext_offset(r.index, r.fb) /\ ciphertext_offset(r.index, w) \in Nat
            /\ ciphertext_offset(r.index, r.fb) \in Nat
      BY <1>2, Offsets DEF Base
    <3>4. ciphertext_offset(r.index, r.fb) = ciphertext_offset(r.index, w)
      BY <3>2, <3>3
    <3>5. r.index = 0
      BY <1>2, <2>4, <3>4, OnlyFirst
    <3>6. r.index * r.fb + r.skip = r.range.start /\ Len(r.out) = 0
      BY <2>1, <2>4, <3>5 DEF RangeRead, Lost
    <3>7. 0 * r.fb = 0 /\ 0 * w = 0
      BY <1>2
    <3>8. r.index * w + r.skip = First(r) + Len(r.out)
      BY <1>2, <2>1, <3>5, <3>6, <3>7
    <3> QED BY <1>4, <3>5, <3>8
  <2> QED BY <1>4, <2>2, <2>3, <2>4
<1> QED BY <1>3, <1>4

(* The length of what a frame adds.                                        *)
LEMMA RestOf ==
    ASSUME NEW n \in Nat, NEW w \in Nat, w > 0, NEW i, Valid(n, w, i), NEW sk \in Nat
    PROVE  /\ Rest(n, w, i, sk) \in Seq(Nat) /\ Len(Rest(n, w, i, sk)) \in Nat
           /\ Len(Rest(n, w, i, sk)) = IF sk + 1 <= Len(Data(n, w, i)) THEN Len(Data(n, w, i)) - sk ELSE 0
<1>1. PICK z : z = Data(n, w, i) /\ z \in Seq(Nat)
  BY DataOf
<1>2. PICK l \in Nat, m \in Nat : l = Len(z) /\ m = sk + 1 /\ m >= 1 /\ l <= Len(z)
  BY <1>1
<1>3. PICK u : u = SubSeq(z, m, l)
  OBVIOUS
<1>4. Part(Nat, u, z, m, l)
  BY <1>1, <1>2, <1>3, Parted, Zenon
<1>5. u = Rest(n, w, i, sk)
  BY <1>1, <1>2, <1>3 DEF Rest
<1>6. u \in Seq(Nat) /\ Len(u) \in Nat /\ Len(u) = IF m <= l THEN l - m + 1 ELSE 0
  BY <1>4 DEF Part
<1>7. Len(u) = IF sk + 1 <= l THEN l - sk ELSE 0
  BY <1>2, <1>6
<1> QED BY <1>1, <1>2, <1>5, <1>6, <1>7

(* The first m of a sequence.                                              *)
LEMMA PieceOf ==
    ASSUME NEW T, NEW a, a \in Seq(T), NEW m \in Nat, m <= Len(a)
    PROVE  SubSeq(a, 1, m) \in Seq(T) /\ Len(SubSeq(a, 1, m)) = m
<1>1. Part(T, SubSeq(a, 1, m), a, 1, m)
  BY Parted
<1> QED BY <1>1 DEF Part

(* All of a sequence.                                                      *)
LEMMA WholePiece == ASSUME NEW T, NEW a, a \in Seq(T) PROVE SubSeq(a, 1, Len(a)) = a
OBVIOUS

(* The last frame ends with the plaintext; every other is full.            *)
LEMMA FinalData ==
    ASSUME NEW n \in Nat, NEW w \in Nat, w > 0, NEW i, Valid(n, w, i)
    PROVE  /\ IsFinal(n, w, i) => i * w + Len(Data(n, w, i)) = n
           /\ ~ IsFinal(n, w, i) => Len(Data(n, w, i)) = w
BY DataOf

(* How far a read of a range comes with a frame.                           *)
Arrived(n, w, i, sk, st, l, lo, m) == (i + 1) * w + 0 = st + (lo + m)

(* If there is more to serve, it begins with the next frame.               *)
LEMMA StillToServe ==
    ASSUME NEW n \in Nat, NEW w \in Nat, w > 0, NEW i \in Nat, Valid(n, w, i), NEW sk \in Nat,
           sk < w,
           NEW st \in Nat, NEW l \in Nat, NEW lo \in Nat, st + l <= n, i * w + sk = st + lo,
           NEW m \in Nat,
           m = IF l - lo <= Len(Rest(n, w, i, sk)) THEN l - lo ELSE Len(Rest(n, w, i, sk)),
           l > lo, l - lo # m
    PROVE  Arrived(n, w, i, sk, st, l, lo, m)
<1>0. PICK le \in Nat : le = l - lo /\ le > 0
  OBVIOUS
<1>1. PICK b \in Nat, z \in Nat, a \in Nat :
        b = i * w /\ z = Len(Data(n, w, i)) /\ a = Len(Rest(n, w, i, sk))
  <2>1. i * w \in Nat /\ Len(Data(n, w, i)) \in Nat
    BY DataOf
  <2>2. Len(Rest(n, w, i, sk)) \in Nat
    BY RestOf
  <2> QED BY <2>1, <2>2
<1>2. a = IF sk + 1 <= z THEN z - sk ELSE 0
  BY <1>1, RestOf, SMTT(20)
<1>3. z <= w /\ (z = w \/ b + z = n)
  <2>1. /\ Len(Data(n, w, i)) <= w
        /\ (Len(Data(n, w, i)) = w \/ i * w + Len(Data(n, w, i)) = n)
    BY DataOf
  <2> QED BY <1>1, <2>1
<1>4. (i + 1) * w = b + w
  BY <1>1
<1>5. m = a /\ a < le /\ b + sk = st + lo
  BY <1>0, <1>1
<1>6. b + w = st + (lo + m)
  BY <1>0, <1>2, <1>3, <1>5
<1> QED BY <1>4, <1>6 DEF Arrived

(* A frame opens.                                                          *)
Turns(r, n, w, rest, m, piece, le, out2, r2) ==
    /\ m = (IF r.left = Absence THEN Len(Rest(n, w, r.index, r.skip))
            ELSE IF r.left <= Len(Rest(n, w, r.index, r.skip)) THEN r.left
            ELSE Len(Rest(n, w, r.index, r.skip)))
    /\ piece = SubSeq(Rest(n, w, r.index, r.skip), 1, m)
    /\ le = (IF r.left = Absence THEN Absence ELSE r.left - m)
    /\ out2 = r.out \o piece
    /\ r2 = [r EXCEPT !.phase = IF le = 0 THEN "done" ELSE "frames",
                      !.buffer = IF le = 0 THEN <<>> ELSE rest,
                      !.source = IF le = 0 THEN <<>> ELSE @,
                      !.index = @ + 1, !.skip = 0, !.left = le,
                      !.final = IsFinal(n, w, r.index), !.out = out2]

(* What it holds is added, and the read has come to the next frame.        *)
LEMMA OpenedOK ==
    ASSUME NEW n \in Nat, NEW w \in Nat, w > 0, NEW o, NEW d,
           d # "rearranged" => InPlace(o, w), o \in Seq(TrueCells(n, w)),
           NEW r, ReaderOK(r, n, w, o, d), r.phase = "frames", Valid(n, w, r.index),
           Base(r) + 1 \in 1 .. Len(o), o[Base(r) + 1] = SealedCell(n, w, r.index, 1),
           NEW rest, rest \in Seq(TrueCells(n, w)),
           Window(o, ciphertext_offset(r.index + 1, r.fb), End(r, o), rest, r.source),
           NEW m, NEW piece, NEW le, NEW out2, NEW r2,
           Turns(r, n, w, rest, m, piece, le, out2, r2)
    PROVE  ReaderOK(r2, n, w, o, d) /\ (Untouched(r, w) => Untouched(r2, w))
<1>0. /\ m = (IF r.left = Absence THEN Len(Rest(n, w, r.index, r.skip))
              ELSE IF r.left <= Len(Rest(n, w, r.index, r.skip)) THEN r.left
              ELSE Len(Rest(n, w, r.index, r.skip)))
      /\ piece = SubSeq(Rest(n, w, r.index, r.skip), 1, m)
      /\ le = (IF r.left = Absence THEN Absence ELSE r.left - m)
      /\ out2 = r.out \o piece
      /\ r2 = [r EXCEPT !.phase = IF le = 0 THEN "done" ELSE "frames",
                        !.buffer = IF le = 0 THEN <<>> ELSE rest,
                        !.source = IF le = 0 THEN <<>> ELSE @,
                        !.index = @ + 1, !.skip = 0, !.left = le,
                        !.final = IsFinal(n, w, r.index), !.out = out2]
  BY Zenon DEF Turns
<1>1. PICK T : T = TrueCells(n, w)
  OBVIOUS
<1>2. r \in Readers(T) /\ rest \in Seq(T) /\ <<>> \in Seq(T)
  BY <1>1, NoneYet DEF ReaderOK
<1>3. PICK i \in Nat, sk \in Nat, lo \in Nat, fi \in BOOLEAN, a \in Nat :
        /\ i = r.index /\ sk = r.skip /\ lo = Len(r.out) /\ fi = IsFinal(n, w, i)
        /\ a = Len(Rest(n, w, i, sk))
  <2>1. r.index \in Nat /\ r.skip \in Nat /\ Len(r.out) \in Nat
    BY <1>2, ReaderFields
  <2>2. IsFinal(n, w, r.index) \in BOOLEAN
    BY DEF IsFinal
  <2>3. Len(Rest(n, w, r.index, r.skip)) \in Nat
    BY <2>1, RestOf
  <2> QED BY <2>1, <2>2, <2>3
<1>4. Valid(n, w, i)
  BY <1>3
<1>5. /\ r.range = Absence => ~ r.final
      /\ Exempt(r, w, d) \/ i * w + sk = First(r) + lo
      /\ r.range # Absence /\ r.fb # w /\ d # "rearranged" => i = 0
  BY <1>3, ComeTo
<1>6. r.left = Absence \/ r.left \in Nat
  BY <1>2, ReaderFields
<1>7. m \in Nat /\ m <= a /\ (r.left = Absence => m = a)
      /\ (r.left # Absence => m = IF r.left <= a THEN r.left ELSE a)
  BY <1>0, <1>3, <1>6
<1>8. /\ r.left = Absence => le = Absence /\ le # 0
      /\ r.left # Absence => le = r.left - m /\ le \in Nat /\ m <= r.left
  <2>1. CASE r.left = Absence
    BY <1>0, <2>1, FramingNumbers
  <2>2. CASE r.left # Absence
    <3>1. le = r.left - m /\ r.left \in Nat
      BY <1>0, <1>6, <2>2
    <3>2. m <= r.left
      BY <1>6, <1>7, <2>2
    <3> QED BY <1>7, <2>2, <3>1, <3>2
  <2> QED BY <2>1, <2>2
<1>9. PICK z : z = Rest(n, w, i, sk) /\ z \in Seq(Nat) /\ Len(z) = a
  BY <1>3, <1>4, RestOf
<1>10. piece = SubSeq(z, 1, m) /\ piece \in Seq(Nat) /\ Len(piece) = m
  <2>1. piece = SubSeq(z, 1, m)
    BY <1>0, <1>3, <1>9
  <2>2. SubSeq(z, 1, m) \in Seq(Nat) /\ Len(SubSeq(z, 1, m)) = m
    BY <1>7, <1>9, PieceOf
  <2> QED BY <2>1, <2>2
<1>11. out2 \in Seq(Nat) /\ Len(out2) = lo + m
  <2>1. PICK u : u = r.out /\ u \in Seq(Nat)
    BY <1>2, ReaderFields
  <2>2. Appends(Nat, u \o piece, u, piece)
    BY <1>10, <2>1, Appended
  <2>3. out2 = u \o piece
    BY <1>0, <2>1
  <2> QED BY <1>3, <1>10, <2>1, <2>2, <2>3 DEF Appends
<1>12. PICK ph \in {"done", "frames"}, x2 \in Seq(T), y2 \in Seq(T), i2 \in Nat :
        /\ ph = (IF le = 0 THEN "done" ELSE "frames") /\ x2 = (IF le = 0 THEN <<>> ELSE rest)
        /\ y2 = (IF le = 0 THEN <<>> ELSE r.source) /\ i2 = i + 1
  <2>1. r.source \in Seq(T)
    BY <1>2, ReaderFields
  <2>2. i + 1 \in Nat
    OBVIOUS
  <2>3. CASE le = 0
    <3>1. PICK a1, a2, a3, a4 : a1 = "done" /\ a2 = <<>> /\ a3 = <<>> /\ a4 = i + 1
      OBVIOUS
    <3> QED BY <1>2, <2>2, <2>3, <3>1, Zenon
  <2>4. CASE le # 0
    <3>1. PICK a1, a2, a3, a4 : a1 = "frames" /\ a2 = rest /\ a3 = r.source /\ a4 = i + 1
      OBVIOUS
    <3> QED BY <1>2, <2>1, <2>2, <2>4, <3>1, Zenon
  <2> QED BY <2>3, <2>4
<1>13. r2 = [r EXCEPT !.phase = ph, !.buffer = x2, !.source = y2, !.index = i2, !.skip = 0,
                      !.left = le, !.final = fi, !.out = out2]
  BY <1>0, <1>2, <1>3, <1>12 DEF Readers
<1>14. r2 \in Readers(T)
  <2>1. le \in Nat \cup {Absence}
    BY <1>6, <1>8
  <2> QED BY <1>2, <1>11, <1>13, <2>1 DEF Readers
<1>15. /\ r2.phase = ph /\ r2.buffer = x2 /\ r2.source = y2 /\ r2.index = i2 /\ r2.skip = 0
       /\ r2.left = le /\ r2.final = fi /\ r2.out = out2 /\ r2.range = r.range /\ r2.fb = r.fb
  BY <1>2, <1>13 DEF Readers
<1>16. TrueOut(r2) \/ Exempt(r2, w, d)
  <2>1. CASE Exempt(r, w, d)
    BY <1>15, <2>1 DEF Exempt
  <2>2. CASE ~ Exempt(r, w, d)
    <3>1. PICK u, f : u = r.out /\ u \in Seq(Nat) /\ f = First(r)
      BY <1>2, ReaderFields
    <3>2. f \in Nat
      <4>1. r.range = Absence \/ r.range \in [start : Nat, length : Nat]
        BY <1>2, ReaderFields
      <4> QED BY <3>1, <4>1 DEF First
    <3>3. \A k \in 1 .. Len(u) : u[k] = f + k
      BY <2>2, <3>1 DEF ReaderOK, TrueOut
    <3>4. i * w + sk = f + Len(u)
      BY <1>3, <1>5, <2>2, <3>1
    <3>5. out2 = u \o SubSeq(Rest(n, w, i, sk), 1, m)
      BY <1>0, <1>9, <1>10, <3>1
    <3>8. m <= Len(Rest(n, w, i, sk)) /\ TrueFrom(u, f) /\ u \in Seq(Nat) /\ m \in Nat
      BY <1>3, <1>7, <3>1, <3>3 DEF TrueFrom
    <3>9. TrueFrom(u \o SubSeq(Rest(n, w, i, sk), 1, m), f)
      BY <1>4, <3>2, <3>4, <3>8, TrueAdded, Zenon
    <3>6. \A k \in 1 .. Len(out2) : out2[k] = f + k
      BY <3>5, <3>9 DEF TrueFrom
    <3>7. First(r2) = f
      BY <1>15, <3>1 DEF First
    <3> QED BY <1>15, <3>6, <3>7 DEF TrueOut
  <2> QED BY <2>1, <2>2
<1>17. ph = "frames" => Window(o, Base(r2), End(r2, o), r2.buffer, r2.source)
  <2> SUFFICES ASSUME ph = "frames" PROVE Window(o, Base(r2), End(r2, o), r2.buffer, r2.source)
    OBVIOUS
  <2>1. x2 = rest /\ y2 = r.source
    BY <1>12
  <2>2. Base(r2) = ciphertext_offset(r.index + 1, r.fb) /\ End(r2, o) = End(r, o)
    BY <1>3, <1>12, <1>15 DEF Base, End
  <2> QED BY <1>15, <2>1, <2>2
<1>18. CASE r.range = Absence
  <2>1. WholeRead(r, n, w) /\ ~ r.final
    BY <1>5, <1>18 DEF ReaderOK
  <2>2. r.left = Absence /\ sk = 0 /\ lo = i * w
    BY <1>3, <2>1 DEF WholeRead
  <2>3. PICK b \in Nat, l \in Nat : b = i * w /\ l = Len(Data(n, w, i)) /\ (i + 1) * w = b + w
    <3>1. i * w \in Nat /\ Len(Data(n, w, i)) \in Nat /\ (i + 1) * w = i * w + w
      BY <1>4, DataOf
    <3> QED BY <3>1
  <2>4. a = l
    <3>1. Len(Rest(n, w, i, sk)) = IF sk + 1 <= Len(Data(n, w, i)) THEN Len(Data(n, w, i)) - sk ELSE 0
      BY <1>4, RestOf
    <3>2. a = IF 0 + 1 <= l THEN l - 0 ELSE 0
      BY <1>3, <2>2, <2>3, <3>1
    <3> QED BY <3>2
  <2>5. Len(out2) = b + l
    BY <1>7, <1>11, <2>2, <2>3, <2>4
  <2>6. /\ fi => b + l = n /\ n <= i2 * w
        /\ ~ fi => b + l = i2 * w /\ Valid(n, w, i2)
    <3>5. IsFinal(n, w, i) => i * w + Len(Data(n, w, i)) = n
      BY <1>4, FinalData
    <3>6. ~ IsFinal(n, w, i) => Len(Data(n, w, i)) = w
      BY <1>4, FinalData
    <3>1. (IsFinal(n, w, i) => i * w + Len(Data(n, w, i)) = n)
            /\ (~ IsFinal(n, w, i) => Len(Data(n, w, i)) = w)
      BY <3>5, <3>6
    <3>2. i2 * w = b + w
      BY <1>12, <2>3
    <3>3. IsFinal(n, w, i) <=> n <= b + w
      BY <2>3 DEF IsFinal
    <3>4. ~ n <= b + w => Valid(n, w, i2)
      BY <3>2 DEF Valid
    <3> QED BY <1>3, <2>3, <3>1, <3>2, <3>3, <3>4
  <2>7. le = Absence /\ ph = "frames"
    BY <1>8, <1>12, <2>2
  <2>8. WholeRead(r2, n, w)
    <3>1. i2 > 0
      BY <1>12
    <3> QED BY <1>15, <2>5, <2>6, <2>7, <3>1 DEF WholeRead
  <2>9. ReaderOK(r2, n, w, o, d)
    BY <1>1, <1>14, <1>15, <1>16, <1>17, <1>18, <2>8 DEF ReaderOK
  <2>10. Untouched(r, w) => Untouched(r2, w)
    BY <1>15, <1>18, <2>7 DEF Untouched
  <2> QED BY <2>9, <2>10
<1>19. CASE r.range # Absence
  <2>1. RangeRead(r, n, w, d)
    BY <1>19 DEF ReaderOK
  <2>2. PICK st \in Nat, l \in Nat : st = r.range.start /\ l = r.range.length
    <3>1. r.range \in [start : Nat, length : Nat]
      BY <1>2, <1>19, ReaderFields
    <3> QED BY <3>1
  <2>3. /\ r.left \in Nat /\ r.left > 0 /\ r.left = l - lo /\ l > 0 /\ st + l <= n /\ r.fb > 0
        /\ r.left # Absence
    BY <1>3, <2>1, <2>2, FramingNumbers DEF RangeRead
  <2>4. le = r.left - m /\ le \in Nat /\ m <= r.left /\ m = (IF r.left <= a THEN r.left ELSE a)
    BY <1>7, <1>8, <2>3
  <2>5. Len(out2) <= l /\ le = l - Len(out2)
    BY <1>7, <1>11, <2>3, <2>4
  <2>6. ASSUME ph = "frames", r.fb = w PROVE Come(r2, w)
    <3>1. le # 0
      BY <1>12, <2>6
    <3>2. i * w + sk = st + lo /\ sk < w
      BY <1>3, <2>1, <2>2, <2>6 DEF RangeRead, Come
    <3>3. l > lo /\ l - lo # m /\ st + l <= n /\ m \in Nat
      BY <1>7, <2>3, <2>4, <3>1
    <3>4. m = IF l - lo <= Len(Rest(n, w, i, sk)) THEN l - lo ELSE Len(Rest(n, w, i, sk))
      BY <1>3, <2>3, <2>4
    <3>5. Arrived(n, w, i, sk, st, l, lo, m)
      BY <1>4, <3>2, <3>3, <3>4, StillToServe, Zenon
    <3> QED BY <1>11, <1>12, <1>15, <2>2, <3>5 DEF Come, Arrived
  <2>7. ASSUME ph = "frames", r.fb # w, d # "rearranged" PROVE Lost(r2)
    BY <1>5, <1>12, <1>15, <1>19, <2>7 DEF Lost
  <2>8. RangeRead(r2, n, w, d)
    <3>1. ph = "frames" => le > 0
      BY <1>12, <2>4
    <3> QED BY <1>12, <1>15, <2>2, <2>3, <2>4, <2>5, <2>6, <2>7, <3>1 DEF RangeRead
  <2>9. ReaderOK(r2, n, w, o, d)
    BY <1>1, <1>14, <1>15, <1>16, <1>17, <1>19, <2>8 DEF ReaderOK
  <2>10. Untouched(r2, w)
    <3>1. ph = "done" => Len(out2) = l
      <4>1. ph = "done" => le = 0
        BY <1>12
      <4> QED BY <1>7, <1>11, <2>5, <4>1
    <3> QED BY <1>12, <1>15, <1>19, <2>2, <3>1 DEF Untouched
  <2> QED BY <2>9, <2>10
<1> QED BY <1>18, <1>19

-----------------------------------------------------------------------------
(* Intact objects.                                                         *)
(* The frame a range read has come to is not after the last of the range.  *)
LEMMA NotAfterLast ==
    ASSUME NEW w \in Nat, w > 0, NEW i \in Nat, NEW sk \in Nat, NEW st \in Nat, NEW l \in Nat,
           NEW lo \in Nat,
           lo < l, i * w + sk = st + lo
    PROVE  (st + l - 1) \div w \in Nat /\ i <= (st + l - 1) \div w
<1>1. PICK p \in Nat : p = st + l - 1
  OBVIOUS
<1>2. PICK q \in Nat, s \in Nat : p \div w = q /\ s < w /\ p = q * w + s
  BY Quotient
<1>3. PICK b \in Nat, c \in Nat : b = i * w /\ c = q * w /\ (q + 1) * w = c + w
  <2>1. i * w \in Nat /\ q * w \in Nat /\ (q + 1) * w = q * w + w
    OBVIOUS
  <2> QED BY <2>1
<1>4. b <= p /\ p < c + w
  BY <1>1, <1>2, <1>3
<1>5. ~ q + 1 <= i
  <2> SUFFICES ASSUME q + 1 <= i PROVE FALSE
    OBVIOUS
  <2>1. (q + 1) * w <= i * w
    BY TimesMonotonic
  <2> QED BY <1>3, <1>4, <2>1
<1> QED BY <1>1, <1>2, <1>5

(* A range read looks as far as the frame it has come to reaches.          *)
LEMMA RangeEnd ==
    ASSUME NEW w \in Nat, w > 0, NEW g, g \in [start : Nat, length : Nat], NEW i \in Nat,
           NEW sk \in Nat,
           NEW lo \in Nat, lo < g.length, i * w + sk = g.start + lo,
           NEW r, r.range = g, r.fb = w, g # Absence, NEW o, Len(o) \in Nat
    PROVE  End(r, o) = Len(o) \/ End(r, o) >= ciphertext_offset(i + 1, w)
<1>1. PICK st \in Nat, l \in Nat : st = g.start /\ l = g.length
  OBVIOUS
<1>2. PICK la \in Nat : la = (st + l - 1) \div w /\ i <= la
  <2>1. lo < l /\ i * w + sk = st + lo
    BY <1>1
  <2>2. (st + l - 1) \div w \in Nat /\ i <= (st + l - 1) \div w
    BY <2>1, NotAfterLast
  <2> QED BY <2>2
<1>3. frames_for_range(r.range, r.fb).last = la
  BY <1>1, <1>2 DEF frames_for_range
<1>4. PICK e \in Nat, f \in Nat : e = ciphertext_offset(la + 1, w)
             /\ f = ciphertext_offset(i + 1, w) /\ f <= e
  <2>1. la + 1 \in Nat /\ i + 1 \in Nat /\ i + 1 <= la + 1
    BY <1>2
  <2> QED BY <2>1, Offsets
<1>5. End(r, o) = Min({e, Len(o)})
  BY <1>3, <1>4 DEF End
<1>6. Min({e, Len(o)}) = IF e <= Len(o) THEN e ELSE Len(o)
  <2>1. e \in Int /\ Len(o) \in Int
    OBVIOUS
  <2> QED BY <2>1, MinOfTwo, Zenon
<1> QED BY <1>4, <1>5, <1>6

(* Nothing follows the last frame of an intact object.                     *)
LEMMA AfterLast ==
    ASSUME NEW n \in Nat, NEW w \in Nat, w > 0, NEW j, Valid(n, w, j), IsFinal(n, w, j),
           NEW o, Whole(o, n, w, j), NEW i \in Nat, i > 0, n <= i * w
    PROVE  Len(o) <= ciphertext_offset(i, w)
<1>1. j \in Nat /\ (j = 0 \/ j * w < n)
  BY DEF Valid
<1>2. j + 1 <= i
  <2> SUFFICES ASSUME i <= j PROVE FALSE
    BY <1>1
  <2>1. i * w <= j * w /\ i * w \in Nat /\ j * w \in Nat
    BY <1>1, TimesMonotonic
  <2> QED BY <1>1, <2>1
<1>3. PICK a \in Nat, b \in Nat : /\ a = ciphertext_offset(j, w) /\ b = ciphertext_offset(i, w)
                                  /\ a + w + FrameOverhead <= b
  <2>1. ciphertext_offset(j + 1, w) = ciphertext_offset(j, w) + w + FrameOverhead
          /\ ciphertext_offset(j, w) \in Nat
    BY <1>1, Offsets
  <2>2. ciphertext_offset(i, w) \in Nat
          /\ ciphertext_offset(j + 1, w) <= ciphertext_offset(i, w)
    <3>1. j + 1 \in Nat
      BY <1>1
    <3> QED BY <1>2, <3>1, Offsets
  <2> QED BY <2>1, <2>2
<1>4. Len(Data(n, w, j)) \in Nat /\ Len(Data(n, w, j)) <= w
  BY DataOf
<1>5. Len(o) = a + Len(Data(n, w, j)) + FrameOverhead
  BY <1>3 DEF Whole
<1> QED BY <1>3, <1>4, <1>5, FramingNumbers

(* A read of an intact object finds the frame it has come to, or has read  *)
(* the last one.                                                           *)
OpensNow(r, w) ==
    /\ Len(r.buffer) + Len(r.source) > 0
    /\ Len(r.buffer) >= w + FrameOverhead
         => _open_frame(SubSeq(r.buffer, 1, w + FrameOverhead), r.index) # {}
    /\ Len(r.buffer) < w + FrameOverhead /\ r.source = <<>>
         => _open_frame(r.buffer, r.index) # {}

(* So it never meets a frame that does not open.                           *)
LEMMA OpensHere ==
    ASSUME NEW n \in Nat, NEW w \in Nat, w > 0, NEW j, Valid(n, w, j), IsFinal(n, w, j),
           NEW o, Whole(o, n, w, j), o \in Seq(TrueCells(n, w)), NEW d,
           NEW r, ReaderOK(r, n, w, o, d), r.phase = "frames", r.fb = w
    PROVE  OpensNow(r, w) \/ (r.range = Absence /\ r.final /\ Len(r.buffer) + Len(r.source) = 0)
<1>1. PICK T : T = TrueCells(n, w) /\ o \in Seq(T)
  OBVIOUS
<1>2. r \in Readers(T)
  BY <1>1 DEF ReaderOK
<1>3. PICK i \in Nat, lo \in Nat, sk \in Nat, x \in Seq(T), y \in Seq(T) :
        i = r.index /\ lo = Len(r.out) /\ sk = r.skip /\ x = r.buffer /\ y = r.source
  <2>1. r.index \in Nat /\ Len(r.out) \in Nat /\ r.skip \in Nat /\ r.buffer \in Seq(T)
          /\ r.source \in Seq(T)
    BY <1>2, ReaderFields
  <2> QED BY <2>1
<1>4. r.range = Absence \/ (r.fb > 0 /\ r.range.length > 0)
  BY DEF ReaderOK, RangeRead
<1>5. PICK b \in Nat, e \in Nat, z \in Nat :
        b = ciphertext_offset(i, w) /\ e = End(r, o) /\ z = Len(o) /\ e <= z /\ b = Base(r)
  <2>1. Base(r) \in Nat /\ End(r, o) \in Nat /\ End(r, o) <= Len(o)
    BY <1>1, <1>2, <1>4, Bounds
  <2>2. Base(r) = ciphertext_offset(i, w)
    BY <1>3 DEF Base
  <2>3. Len(o) \in Nat
    BY <1>1
  <2> QED BY <2>1, <2>2, <2>3
<1>6. Window(o, b, e, x, y)
  BY <1>3, <1>5 DEF ReaderOK
<1>7. ASSUME Valid(n, w, i), e = z \/ e >= ciphertext_offset(i + 1, w) PROVE OpensNow(r, w)
  <2>1. x \in Seq(TrueCells(n, w)) /\ y \in Seq(TrueCells(n, w)) /\ e <= Len(o)
          /\ (e = Len(o) \/ e >= ciphertext_offset(i + 1, w))
               /\ Window(o, ciphertext_offset(i, w), e, x, y)
    BY <1>1, <1>5, <1>6, <1>7
  <2>2. /\ Len(x) + Len(y) > 0
        /\ Len(x) >= w + FrameOverhead =>
             SubSeq(x, 1, w + FrameOverhead) = _seal_frame(Data(n, w, i), i, IsFinal(n, w, i))
        /\ Len(x) < w + FrameOverhead /\ y = <<>>
             => x = _seal_frame(Data(n, w, i), i, IsFinal(n, w, i))
    BY <1>7, <2>1, FrameHere
  <2>3. _open_frame(_seal_frame(Data(n, w, i), i, IsFinal(n, w, i)), i) # {}
    BY <1>7, SealedOpens
  <2> QED BY <1>3, <2>2, <2>3 DEF OpensNow
<1>8. CASE r.range = Absence /\ ~ r.final
  <2>1. WholeRead(r, n, w) /\ e = z
    BY <1>5, <1>8 DEF ReaderOK, End
  <2>2. Valid(n, w, i)
    BY <1>3, <1>8, <2>1 DEF WholeRead
  <2> QED BY <1>7, <2>1, <2>2
<1>9. CASE r.range = Absence /\ r.final
  <2>1. WholeRead(r, n, w) /\ e = z
    BY <1>5, <1>9 DEF ReaderOK, End
  <2>2. i > 0 /\ n <= i * w
    BY <1>3, <1>9, <2>1 DEF WholeRead
  <2>3. z <= b
    <3>1. Len(o) <= ciphertext_offset(i, w)
      BY <2>2, AfterLast
    <3> QED BY <1>5, <3>1
  <2>4. Len(x) + Len(y) = 0
    <3>1. Len(x) + Len(y) = IF b <= e THEN e - b ELSE 0
      BY <1>6 DEF Window
    <3> QED BY <2>1, <2>3, <3>1
  <2> QED BY <1>3, <1>9, <2>4
<1>10. CASE r.range # Absence
  <2>1. RangeRead(r, n, w, d)
    BY <1>10 DEF ReaderOK
  <2>2. r.range \in [start : Nat, length : Nat]
    BY <1>2, <1>10, ReaderFields
  <2>3. PICK st \in Nat, l \in Nat : st = r.range.start /\ l = r.range.length
    BY <2>2
  <2>4. lo < l /\ st + l <= n /\ i * w + sk = st + lo
    <3>1. /\ r.left \in Nat /\ r.left > 0 /\ r.left = r.range.length - Len(r.out) /\ Come(r, w)
          /\ r.range.start + r.range.length <= n
      BY <2>1 DEF RangeRead
    <3>2. i * w + sk = st + lo
      BY <1>3, <2>3, <3>1 DEF Come
    <3>3. PICK le \in Nat : le > 0 /\ le = l - lo
      BY <1>3, <2>3, <3>1
    <3> QED BY <2>3, <3>1, <3>2, <3>3, SMTT(20)
  <2>5. i * w \in Nat /\ i * w < n
    <3>1. i * w \in Nat
      OBVIOUS
    <3> QED BY <2>4, <3>1
  <2>6. Valid(n, w, i)
    BY <2>5 DEF Valid
  <2>7. lo < r.range.length /\ i * w + sk = r.range.start + lo /\ Len(o) \in Nat
    BY <1>5, <2>3, <2>4
  <2>8. End(r, o) = Len(o) \/ End(r, o) >= ciphertext_offset(i + 1, w)
    BY <1>10, <2>2, <2>7, RangeEnd
  <2> QED BY <1>5, <1>7, <2>6, <2>8
<1> QED BY <1>8, <1>9, <1>10

-----------------------------------------------------------------------------
(* A turn of the loop.                                                     *)
(* What a turn of the loop is about to open, and what it leaves behind.    *)
Facing(o, r, n, w, cells, rest) ==
    /\ cells \in Seq(TrueCells(n, w)) /\ Len(cells) > 0
    /\ Base(r) + 1 \in 1 .. Len(o) /\ cells[1] = o[Base(r) + 1]
    /\ rest \in Seq(TrueCells(n, w))
    /\ Window(o, ciphertext_offset(r.index + 1, r.fb), End(r, o), rest, r.source)

(* A frame that does not open ends the read.                               *)
LEMMA FailedOK ==
    ASSUME NEW n \in Nat, NEW w \in Nat, NEW o, NEW d, NEW r, ReaderOK(r, n, w, o, d),
           r.phase \in {"header", "frames"}, NEW r2, EndsAs(r, "failed", r2)
    PROVE  /\ ReaderOK(r2, n, w, o, d)
           /\ (~ (r.range = Absence \/ r.fb = w) => Untouched(r2, w))
<1>1. ReaderOK(r2, n, w, o, d) /\ r2.phase = "failed" /\ r2.range = r.range /\ r2.fb = r.fb
  BY EndedOK
<1> QED BY <1>1 DEF Untouched

(* A frame that opens is added.                                            *)
LEMMA TurnOK ==
    ASSUME NEW n \in Nat, NEW w \in Nat, w > 0, NEW o, NEW d,
           d # "rearranged" => InPlace(o, w), o \in Seq(TrueCells(n, w)),
           ReaderOK(reader, n, w, o, d), reader.phase = "frames",
           NEW cells, NEW rest, Facing(o, reader, n, w, cells, rest),
           _open_frame(cells, reader.index) # {}, Opened(cells, rest)
    PROVE  ReaderOK(reader', n, w, o, d) /\ (Untouched(reader, w) => Untouched(reader', w))
<1>1. PICK c : c = CHOOSE x \in _open_frame(cells, reader.index) : TRUE
  OBVIOUS
<1>2. c \in _open_frame(cells, reader.index)
  BY <1>1
<1>3. PICK r : r = reader
  OBVIOUS
<1>4. r \in Readers(TrueCells(n, w))
  BY <1>3 DEF ReaderOK
<1>5. PICK i \in Nat, sk \in Nat : i = r.index /\ sk = r.skip
  BY <1>4, ReaderFields
<1>6. r.left = Absence \/ r.left \in Nat
  BY <1>4, ReaderFields
<1>7. /\ Valid(n, w, i) /\ c.data = Data(n, w, i) /\ c.final = IsFinal(n, w, i)
      /\ cells[1] = SealedCell(n, w, i, 1)
  <2>1. cells \in Seq(TrueCells(n, w)) /\ Len(cells) > 0 /\ c \in _open_frame(cells, i)
    BY <1>2, <1>3, <1>5 DEF Facing
  <2> QED BY <2>1, OpensTrue
<1>8. PICK a \in Nat, z \in Seq(Nat) : z = Rest(n, w, i, sk) /\ a = Len(z)
  <2>1. Rest(n, w, i, sk) \in Seq(Nat) /\ Len(Rest(n, w, i, sk)) \in Nat
    BY <1>7, RestOf
  <2> QED BY <2>1
<1>9. SubSeq(c.data, reader.skip + 1, Len(c.data)) = z
  BY <1>3, <1>5, <1>7, <1>8 DEF Rest
<1>10. PICK m : m = IF r.left = Absence THEN a ELSE IF r.left <= a THEN r.left ELSE a
  OBVIOUS
<1>11. PICK piece : piece = SubSeq(z, 1, m)
  OBVIOUS
<1>12. piece = IF r.left = Absence THEN z ELSE SubSeq(z, 1, Min({r.left, Len(z)}))
  <2>1. CASE r.left = Absence
    <3>1. SubSeq(z, 1, Len(z)) = z
      BY <1>8, WholePiece
    <3> QED BY <1>8, <1>10, <1>11, <2>1, <3>1
  <2>2. CASE r.left # Absence
    <3>1. r.left \in Int /\ Len(z) \in Int
      BY <1>6, <1>8, <2>2
    <3>2. Min({r.left, Len(z)}) = IF r.left <= Len(z) THEN r.left ELSE Len(z)
      BY <3>1, MinOfTwo, Zenon
    <3> QED BY <1>8, <1>10, <1>11, <2>2, <3>2
  <2> QED BY <2>1, <2>2
<1>13. Len(piece) = m
  <2>1. m \in Nat /\ m <= Len(z)
    BY <1>6, <1>8, <1>10
  <2> QED BY <1>8, <1>11, <2>1, PieceOf
<1>14. PICK le : le = IF r.left = Absence THEN Absence ELSE r.left - m
  OBVIOUS
<1>15. reader' = [r EXCEPT !.phase = IF le = 0 THEN "done" ELSE "frames",
                           !.buffer = IF le = 0 THEN <<>> ELSE rest,
                           !.source = IF le = 0 THEN <<>> ELSE @,
                           !.index = @ + 1, !.skip = 0, !.left = le,
                           !.final = IsFinal(n, w, r.index), !.out = r.out \o piece]
  <2> DEFINE all == SubSeq(c.data, reader.skip + 1, Len(c.data))
             pc == IF reader.left = Absence THEN all
               ELSE SubSeq(all, 1, Min({reader.left, Len(all)}))
             lf == IF reader.left = Absence THEN Absence ELSE reader.left - Len(pc)
  <2>1. reader' = [reader EXCEPT
                !.phase = IF lf = 0 THEN "done" ELSE "frames",
                !.buffer = IF lf = 0 THEN <<>> ELSE rest,
                !.source = IF lf = 0 THEN <<>> ELSE @,
                !.index = @ + 1, !.skip = 0, !.left = lf,
                !.final = c.final, !.out = @ \o pc]
    BY <1>1, Zenon DEF Opened
  <2>2. pc = piece
    BY <1>3, <1>9, <1>12
  <2>3. lf = le
    BY <1>3, <1>13, <1>14, <2>2
  <2>4. c.final = IsFinal(n, w, r.index)
    BY <1>5, <1>7
  <2> HIDE DEF pc, lf
  <2> QED BY <1>3, <2>1, <2>2, <2>3, <2>4
<1>16. /\ m = (IF r.left = Absence THEN Len(Rest(n, w, r.index, r.skip))
               ELSE IF r.left <= Len(Rest(n, w, r.index, r.skip)) THEN r.left
               ELSE Len(Rest(n, w, r.index, r.skip)))
       /\ piece = SubSeq(Rest(n, w, r.index, r.skip), 1, m)
  BY <1>5, <1>8, <1>10, <1>11
<1>17. /\ ReaderOK(r, n, w, o, d) /\ r.phase = "frames" /\ Valid(n, w, r.index)
       /\ Base(r) + 1 \in 1 .. Len(o) /\ o[Base(r) + 1] = SealedCell(n, w, r.index, 1)
       /\ rest \in Seq(TrueCells(n, w))
       /\ Window(o, ciphertext_offset(r.index + 1, r.fb), End(r, o), rest, r.source)
  BY <1>3, <1>5, <1>7 DEF Facing
<1>18. PICK out2, r2 : out2 = r.out \o piece /\ r2 = reader'
  OBVIOUS
<1>19. r2 = [r EXCEPT !.phase = IF le = 0 THEN "done" ELSE "frames",
                      !.buffer = IF le = 0 THEN <<>> ELSE rest,
                      !.source = IF le = 0 THEN <<>> ELSE @,
                      !.index = @ + 1, !.skip = 0, !.left = le,
                      !.final = IsFinal(n, w, r.index), !.out = out2]
  BY <1>15, <1>18, Zenon
<1>20. ReaderOK(r2, n, w, o, d) /\ (Untouched(r, w) => Untouched(r2, w))
  <2>1. Turns(r, n, w, rest, m, piece, le, out2, r2)
    BY <1>14, <1>16, <1>18, <1>19, Zenon DEF Turns
  <2> QED BY <1>17, <2>1, OpenedOK
<1> QED BY <1>3, <1>18, <1>20

-----------------------------------------------------------------------------
(* The steps of the writer and of the store.                               *)
(* What the invariant says of the parts.                                   *)
LEMMA WriterNumbers ==
    ASSUME FrameInv
    PROVE  /\ writer.size \in Nat /\ writer.fb \in Nat /\ writer.fb > 0 /\ writer.index \in Nat
           /\ writer.phase \in {"seal", "stored"}
<1>1. writer \in Writers
  BY DEF FrameInv
<1>2. writer.size \in PlainSizes /\ writer.fb \in FrameSizes /\ writer.index \in Nat
        /\ writer.phase \in {"seal", "stored"}
  BY <1>1 DEF Writers
<1> QED BY <1>2, FramingNumbers

(* Whoever reads, reads a stored object.                                   *)
LEMMA StoredNow ==
    ASSUME FrameInv, writer.phase = "stored" \/ reader.phase # "idle"
    PROVE  /\ writer.phase = "stored" /\ object \in Seq(TrueCells(writer.size, writer.fb))
           /\ (damage # "rearranged" => InPlace(object, writer.fb))
           /\ Valid(writer.size, writer.fb, writer.index)
                /\ IsFinal(writer.size, writer.fb, writer.index)
           /\ damage = "none" => Whole(object, writer.size, writer.fb, writer.index)
<1>1. writer.phase = "stored"
  <2>1. reader = Idle => reader.phase = "idle"
    BY DEF Idle
  <2> QED BY <2>1, WriterNumbers DEF FrameInv
<1>2. Kept(writer, object, damage)
  BY <1>1 DEF FrameInv
<1> QED BY <1>1, <1>2 DEF Kept

(* A read changes nothing but its own state.                               *)
LEMMA ReadStep ==
    ASSUME FrameInv, writer.phase = "stored", writer' = writer, object' = object,
           damage' = damage,
           ReaderOK(reader', writer.size, writer.fb, object, damage),
           damage = "none" => Untouched(reader', writer.fb)
    PROVE  FrameInv'
BY DEF FrameInv

(* Chunks and frames are sealed.                                           *)
LEMMA SealStep ==
    ASSUME FrameInv, writer.phase = "seal", damage' = damage, reader' = reader,
           writer' \in Writers, writer'.phase = "seal", Sealing(writer', object'),
           writer'.size = writer.size, writer'.fb = writer.fb
    PROVE  FrameInv'
<1>1. damage = "none" /\ reader = Idle
  BY DEF FrameInv
<1>2. PICK n \in Nat, w \in Nat : n = writer.size /\ w = writer.fb
  BY WriterNumbers
<1>3. PICK o2 : o2 = object'
  OBVIOUS
<1>4. ReaderOK(Idle, n, w, o2, "none") /\ Untouched(Idle, w)
  BY IdleOK
<1> QED BY <1>1, <1>2, <1>3, <1>4 DEF FrameInv, Damages

(* seal_chunk.                                                             *)
LEMMA ChunkStep == ASSUME FrameInv, NEW k \in Chunks, seal_chunk(k) PROVE FrameInv'
<1>1. writer \in Writers /\ Sealing(writer, object) /\ writer.phase = "seal"
  BY DEF FrameInv, seal_chunk
<1>2. k \in Nat /\ k > 0
  BY FramingNumbers
<1>3. PICK upTo, wr2 : upTo = Min({writer.taken + k, writer.size}) /\ wr2 = writer'
  OBVIOUS
<1>4. Takes(writer, k, upTo, wr2)
  BY <1>3, Zenon DEF seal_chunk, Takes
<1>5. /\ wr2 \in Writers /\ Sealing(wr2, object)
      /\ wr2.size = writer.size /\ wr2.fb = writer.fb /\ wr2.phase = writer.phase
  BY <1>1, <1>2, <1>4, ChunkSealing
<1>6. object' = object /\ damage' = damage /\ reader' = reader
  BY DEF seal_chunk
<1> QED BY <1>1, <1>3, <1>5, <1>6, SealStep

(* seal_frame.                                                             *)
LEMMA FrameStep == ASSUME FrameInv, seal_frame PROVE FrameInv'
<1>1. writer \in Writers /\ Sealing(writer, object) /\ writer.phase = "seal"
  BY DEF FrameInv, seal_frame
<1>2. PICK o2, wr2 : o2 = object' /\ wr2 = writer'
  OBVIOUS
<1>3. Seals(writer, object, o2, wr2)
  BY <1>2, Zenon DEF seal_frame, MoreFollows, Seals
<1>4. /\ wr2 \in Writers /\ Sealing(wr2, o2)
      /\ wr2.size = writer.size /\ wr2.fb = writer.fb /\ wr2.phase = writer.phase
  BY <1>1, <1>3, FrameSealing
<1>5. damage' = damage /\ reader' = reader
  BY DEF seal_frame
<1> QED BY <1>1, <1>2, <1>4, <1>5, SealStep

(* seal_last.                                                              *)
LEMMA LastStep == ASSUME FrameInv, seal_last PROVE FrameInv'
<1>1. writer \in Writers /\ Sealing(writer, object) /\ writer.phase = "seal"
        /\ damage = "none" /\ reader = Idle
  BY DEF FrameInv, seal_last
<1>2. PICK o2, wr2 : o2 = object' /\ wr2 = writer'
  OBVIOUS
<1>3. /\ writer.taken = writer.size /\ ~ Len(writer.buffer) > writer.fb
      /\ o2 = object \o _seal_frame(writer.buffer, writer.index, TRUE)
      /\ wr2 = [writer EXCEPT !.phase = "stored"]
  BY <1>2, Zenon DEF seal_last, MoreFollows
<1>4. /\ wr2 \in Writers /\ Kept(wr2, o2, "none")
      /\ wr2.size = writer.size /\ wr2.fb = writer.fb /\ wr2.phase = "stored"
  BY <1>1, <1>3, LastSealing, Zenon
<1>5. damage' = damage /\ reader' = reader
  BY DEF seal_last
<1>6. PICK n \in Nat, w \in Nat : n = writer.size /\ w = writer.fb
  BY WriterNumbers
<1>7. ReaderOK(Idle, n, w, o2, "none") /\ Untouched(Idle, w)
  BY IdleOK
<1> QED BY <1>1, <1>2, <1>4, <1>5, <1>6, <1>7 DEF FrameInv, Damages

(* The store damages the object.                                           *)
LEMMA IdleStays ==
    ASSUME NEW r, NEW n, NEW w, NEW o, NEW d, NEW o2, NEW d2, ReaderOK(r, n, w, o, d),
           r.phase = "idle"
    PROVE  ReaderOK(r, n, w, o2, d2)
<1>1. r.range = Absence
  BY DEF ReaderOK, RangeRead
<1> QED BY <1>1 DEF ReaderOK, Exempt

(* Damage is done before anybody reads.                                    *)
LEMMA DamageStep ==
    ASSUME FrameInv, Stored, writer' = writer, reader' = reader, damage' \in Damages,
           damage' # "none",
           Kept(writer, object', damage')
    PROVE  FrameInv'
<1>1. writer.phase = "stored" /\ reader.phase = "idle" /\ writer \in Writers
  BY DEF Stored, FrameInv
<1>2. PICK o2, d2 : o2 = object' /\ d2 = damage'
  OBVIOUS
<1>3. ReaderOK(reader, writer.size, writer.fb, o2, d2)
  BY <1>1, IdleStays DEF FrameInv
<1> QED BY <1>1, <1>2, <1>3 DEF FrameInv

(* truncated.                                                              *)
LEMMA CutStep == ASSUME FrameInv, truncated PROVE FrameInv'
<1>1. Stored /\ Kept(writer, object, "none")
        /\ object \in Seq(TrueCells(writer.size, writer.fb))
  BY DEF FrameInv, truncated, Stored, Kept
<1>2. PICK k \in 0 .. Len(object) - 1 : object' = SubSeq(object, 1, k)
  BY DEF truncated
<1>3. k \in Nat /\ k < Len(object)
  BY <1>1
<1>4. Kept(writer, SubSeq(object, 1, k), "truncated")
  BY <1>1, <1>3, CutKept
<1>5. writer' = writer /\ reader' = reader /\ damage' = "truncated"
  BY DEF truncated
<1> QED BY <1>1, <1>2, <1>4, <1>5, DamageStep DEF Damages

(* substituted.                                                            *)
LEMMA SwapStep == ASSUME FrameInv, substituted PROVE FrameInv'
<1>1. Stored /\ Kept(writer, object, "none")
  BY DEF FrameInv, substituted, Stored
<1>2. PICK k \in DOMAIN object : object' = [object EXCEPT ![k].version = "other"]
  BY DEF substituted
<1>3. Kept(writer, [object EXCEPT ![k].version = "other"], "substituted")
  BY <1>1, SwappedKept
<1>4. writer' = writer /\ reader' = reader /\ damage' = "substituted"
  BY DEF substituted
<1> QED BY <1>1, <1>2, <1>3, <1>4, DamageStep DEF Damages

(* rearranged.                                                             *)
LEMMA RearrangeStep == ASSUME FrameInv, rearranged PROVE FrameInv'
<1>1. Stored /\ Kept(writer, object, "none") /\ writer \in Writers /\ writer.phase = "stored"
        /\ damage = "none"
  BY DEF FrameInv, rearranged, Stored
<1>2. PICK n \in Nat, w \in Nat, j \in Nat : n = writer.size /\ w = writer.fb
             /\ j = writer.index /\ w > 0
  BY WriterNumbers
<1>3. /\ object \in Seq(TrueCells(n, w)) /\ Valid(n, w, j) /\ IsFinal(n, w, j)
           /\ Whole(object, n, w, j)
  BY <1>1, <1>2, StoredNow
<1>4. PICK l \in Nat : l = frame_count(writer.size, writer.fb) /\ l > 0
  <2>1. j + 1 = frame_count(n, w)
    BY <1>2, <1>3, IntactSize
  <2> QED BY <1>2, <2>1
<1>5. PICK order \in [1 .. l -> 0 .. j] :
        object' = Header(writer.fb) \o FlattenSeq([i \in DOMAIN order |-> FrameAt(order[i])])
  BY <1>2, <1>4 DEF rearranged
<1>6. PICK ss : ss = [i \in DOMAIN order |-> FrameAt(order[i])]
  OBVIOUS
<1>7. ASSUME NEW i \in 0 .. j PROVE FrameAt(i) \in Seq(TrueCells(n, w))
  <2>1. PICK a \in Nat, b \in Nat, lo \in Nat :
          a = ciphertext_offset(i, w) + 1 /\ b = ciphertext_offset(i + 1, w) /\ lo = Len(object)
    <3>1. i \in Nat /\ i + 1 \in Nat
      OBVIOUS
    <3>2. ciphertext_offset(i, w) \in Nat /\ ciphertext_offset(i + 1, w) \in Nat
      BY <3>1, Offsets
    <3>3. Len(object) \in Nat
      BY <1>3
    <3> QED BY <3>2, <3>3
  <2>2. PICK e \in Nat : e = Min({b, lo}) /\ e <= lo
    <3>1. b \in Int /\ lo \in Int
      OBVIOUS
    <3>2. Min({b, lo}) = IF b <= lo THEN b ELSE lo
      BY <3>1, MinOfTwo, Zenon
    <3> QED BY <3>2
  <2>3. FrameAt(i) = SubSeq(object, a, e)
    BY <1>2, <2>1, <2>2 DEF FrameAt
  <2>4. a >= 1 /\ e <= Len(object)
    <3>1. i \in Nat
      OBVIOUS
    <3>2. ciphertext_offset(i, w) \in Nat
      BY <3>1, Offsets
    <3> QED BY <2>1, <2>2, <3>2
  <2>5. Part(TrueCells(n, w), SubSeq(object, a, e), object, a, e)
    BY <1>3, <2>4, Parted
  <2> QED BY <2>3, <2>5 DEF Part
<1>8. Len(ss) = l /\ \A i \in 1 .. l : ss[i] \in Seq(TrueCells(n, w))
  <2>1. DOMAIN order = 1 .. l /\ \A i \in 1 .. l : order[i] \in 0 .. j
    OBVIOUS
  <2>2. DOMAIN ss = 1 .. l /\ \A i \in 1 .. l : ss[i] = FrameAt(order[i])
    BY <1>6, <2>1
  <2>3. \A i \in 1 .. l : ss[i] \in Seq(TrueCells(n, w))
    BY <1>7, <2>1, <2>2
  <2>4. ss \in Seq(Seq(TrueCells(n, w))) /\ Len(ss) = l
    <3>1. ss = [i \in 1 .. l |-> FrameAt(order[i])]
      BY <1>6, <2>1
    <3>2. ss \in [1 .. l -> Seq(TrueCells(n, w))]
      BY <2>2, <2>3, <3>1
    <3> QED BY <3>2
  <2> QED BY <2>3, <2>4
<1>9. Kept(writer, Header(writer.fb) \o FlattenSeq(ss), "rearranged")
  BY <1>1, <1>2, <1>4, <1>8, RearrangedKept
<1>10. writer' = writer /\ reader' = reader /\ damage' = "rearranged"
  BY DEF rearranged
<1>11. object' = Header(writer.fb) \o FlattenSeq(ss)
  BY <1>5, <1>6
<1> QED BY <1>1, <1>9, <1>10, <1>11, DamageStep DEF Damages

-----------------------------------------------------------------------------
(* The steps of the reader.                                                *)
(* A read begins.                                                          *)
LEMMA OpenStep ==
    ASSUME FrameInv, NEW fb \in FrameSizes, NEW first \in {Absence} \cup 0 .. writer.size,
           NEW last \in {Absence} \cup 0 .. writer.size, _open_encrypted(first, last, fb)
    PROVE  FrameInv'
<1>1. writer.phase = "stored" /\ writer' = writer /\ object' = object /\ damage' = damage
  BY DEF _open_encrypted
<1>2. PICK n \in Nat, w \in Nat : n = writer.size /\ w = writer.fb /\ w > 0
  BY WriterNumbers
<1>3. object \in Seq(TrueCells(n, w))
  BY <1>1, <1>2, StoredNow
<1>4. PICK g, r2, o, d : g = parse_range(first, last, writer.size) /\ r2 = reader'
             /\ o = object /\ d = damage
  OBVIOUS
<1>5. first \in {Absence} \cup 0 .. n /\ last \in {Absence} \cup 0 .. n
  BY <1>2
<1>6. ReaderOK(r2, n, w, o, d) /\ Untouched(r2, w)
  <2>1. CASE g = Absence
    <3>1. r2 = [Idle EXCEPT !.phase = "header", !.source = o]
      BY <1>4, <2>1, Zenon DEF _open_encrypted
    <3> QED BY <1>3, <1>4, <3>1, WholeBegins
  <2>2. CASE g # Absence
    <3>1. g \in [start : Nat, length : Nat] /\ g.length > 0 /\ g.start + g.length <= n
      BY <1>2, <1>4, <1>5, <2>2, RangeParsed
    <3>2. fb \in Nat /\ fb > 0
      BY FramingNumbers
    <3>3. PICK to, src, i, sk :
            /\ to = Min({ciphertext_offset(frames_for_range(g, fb).last + 1, fb), Len(o)})
            /\ src = SubSeq(o, ciphertext_offset(g.start \div fb, fb) + 1, to)
            /\ i = g.start \div fb /\ sk = g.start % fb
      OBVIOUS
    <3>4. r2 = [Idle EXCEPT !.phase = "frames", !.range = g, !.fb = fb,
                     !.source = SubSeq(o, ciphertext_offset(frames_for_range(g, fb).first, fb) + 1, to),
                     !.index = frames_for_range(g, fb).first,
                     !.skip = frames_for_range(g, fb).skip,
                       !.left = frames_for_range(g, fb).take]
      BY <1>4, <2>2, <3>3, Zenon DEF _open_encrypted
    <3>5. /\ frames_for_range(g, fb).first = i /\ frames_for_range(g, fb).skip = sk
          /\ frames_for_range(g, fb).take = g.length
      BY <3>3 DEF frames_for_range
    <3>6. r2 = [Idle EXCEPT !.phase = "frames", !.range = g, !.fb = fb, !.source = src,
                            !.index = i, !.skip = sk, !.left = g.length]
      BY <3>3, <3>4, <3>5
    <3>7. Begins(o, g, fb, to, src, i, sk, r2)
      BY <3>3, <3>6, Zenon DEF Begins
    <3> QED BY <1>2, <1>3, <1>4, <2>2, <3>1, <3>2, <3>7, RangeBegins
  <2> QED BY <2>1, <2>2
<1> QED BY <1>1, <1>2, <1>4, <1>6, ReadStep

(* A chunk of the store arrives.                                           *)
LEMMA PullStep == ASSUME FrameInv, NEW k \in Chunks, _pull(k) PROVE FrameInv'
<1>1. writer' = writer /\ object' = object /\ damage' = damage
        /\ reader.phase \in {"header", "frames"}
  BY DEF _pull, Reading
<1>2. PICK n \in Nat, w \in Nat : n = writer.size /\ w = writer.fb /\ w > 0
  BY WriterNumbers
<1>3. object \in Seq(TrueCells(n, w)) /\ writer.phase = "stored"
  BY <1>1, <1>2, StoredNow
<1>4. PICK r2 : r2 = reader'
  OBVIOUS
<1>5. Pulls(reader, k, r2) /\ k \in Nat
  BY <1>4, FramingNumbers DEF _pull, Pulls
<1>6. ReaderOK(reader, n, w, object, damage) /\ (damage = "none" => Untouched(reader, w))
  BY <1>2 DEF FrameInv
<1>7. ReaderOK(r2, n, w, object, damage) /\ (Untouched(reader, w) => Untouched(r2, w))
  BY <1>1, <1>3, <1>5, <1>6, PulledOK
<1> QED BY <1>1, <1>2, <1>3, <1>4, <1>6, <1>7, ReadStep

(* A read of an intact object does not fail.                               *)
LEMMA FailStep ==
    ASSUME FrameInv, reader.phase \in {"header", "frames"}, Ends("failed"),
           writer' = writer, object' = object, damage' = damage,
           damage = "none" => ~ (reader.range = Absence \/ reader.fb = writer.fb)
    PROVE  FrameInv'
<1>1. PICK n \in Nat, w \in Nat : n = writer.size /\ w = writer.fb /\ w > 0
  BY WriterNumbers
<1>2. writer.phase = "stored"
  BY StoredNow
<1>3. PICK r2 : r2 = reader' /\ EndsAs(reader, "failed", r2)
  BY DEF Ends, EndsAs
<1>4. ReaderOK(reader, n, w, object, damage)
  BY <1>1 DEF FrameInv
<1>5. ReaderOK(r2, n, w, object, damage)
        /\ (~ (reader.range = Absence \/ reader.fb = w) => Untouched(r2, w))
  BY <1>3, <1>4, FailedOK
<1> QED BY <1>1, <1>2, <1>3, <1>5, ReadStep

(* The header is read.                                                     *)
LEMMA HeaderStep == ASSUME FrameInv, frame_size PROVE FrameInv'
<1>1. writer' = writer /\ object' = object /\ damage' = damage /\ reader.phase = "header"
  BY DEF frame_size
<1>2. PICK n \in Nat, w \in Nat, j \in Nat : n = writer.size /\ w = writer.fb
             /\ j = writer.index /\ w > 0
  BY WriterNumbers
<1>3. PICK T : T = TrueCells(n, w)
  OBVIOUS
<1>4. object \in Seq(T) /\ writer.phase = "stored"
        /\ (damage = "none" => Whole(object, n, w, j))
  BY <1>1, <1>2, <1>3, StoredNow
<1>5. ReaderOK(reader, n, w, object, damage) /\ (damage = "none" => Untouched(reader, w))
  BY <1>2 DEF FrameInv
<1>6. reader \in Readers(T) /\ reader.range = Absence
  BY <1>1, <1>3, <1>5 DEF ReaderOK, RangeRead
<1>7. PICK x \in Seq(T), y \in Seq(T), o \in Seq(T), hc \in Nat :
        x = reader.buffer /\ y = reader.source /\ o = object /\ hc = HeaderCells /\ hc > 0
  <2>1. reader.buffer \in Seq(T) /\ reader.source \in Seq(T)
    BY <1>6, ReaderFields
  <2> QED BY <1>4, <2>1, FramingNumbers
<1>8. Window(o, 0, Len(o), x, y)
  BY <1>1, <1>5, <1>6, <1>7 DEF ReaderOK, Base, End
<1>9. ASSUME damage = "none" PROVE /\ Len(x) >= hc \/ y # <<>>
                                   /\ Len(x) >= hc => SubSeq(x, 1, hc) = Header(w)
  <2>1. Len(o) >= hc /\ \A i \in 1 .. hc : o[i] = Header(w)[i]
    BY <1>4, <1>7, <1>9 DEF Whole, Holds, Headed
  <2>2. Len(x) + Len(y) = Len(o) /\ \A p \in 1 .. Len(x) : x[p] = o[0 + p]
    <3>1. PICK z \in Nat : z = Len(o)
      OBVIOUS
    <3>2. Window(o, 0, z, x, y)
      BY <1>8, <3>1
    <3>3. Len(x) + Len(y) = (IF 0 <= z THEN z - 0 ELSE 0) /\ \A p \in 1 .. Len(x) :
            x[p] = o[0 + p]
      BY <3>2, Zenon DEF Window
    <3>4. (IF 0 <= z THEN z - 0 ELSE 0) = z
      OBVIOUS
    <3> QED BY <3>1, <3>3, <3>4, SMTT(20)
  <2>3. Len(x) >= hc \/ y # <<>>
    <3>1. y = <<>> => Len(y) = 0
      OBVIOUS
    <3>2. Len(x) \in Nat /\ Len(y) \in Nat /\ Len(o) \in Nat
      OBVIOUS
    <3> QED BY <2>1, <2>2, <3>1, <3>2
  <2>4. ASSUME Len(x) >= hc PROVE SubSeq(x, 1, hc) = Header(w)
    <3>1. PICK s : s = SubSeq(x, 1, hc)
      OBVIOUS
    <3>2. Part(T, SubSeq(x, 1, hc), x, 1, hc)
      BY <2>4, Parted
    <3>3. s \in Seq(T) /\ Len(s) = hc /\ \A i \in 1 .. hc : s[i] = x[i]
      <4>1. s \in Seq(T) /\ Len(s) = hc
        BY <1>7, <3>1, <3>2 DEF Part
      <4>2. ASSUME NEW i \in 1 .. hc PROVE s[i] = x[i]
        <5>1. s[i] = x[1 + i - 1] /\ 1 + i - 1 = i
          BY <3>1, <3>2, <4>1 DEF Part
        <5> QED BY <5>1
      <4> QED BY <4>1, <4>2
    <3>4. PICK h : h = Header(w) /\ h \in Seq(T) /\ Len(h) = hc
      <4>1. Holds(Header(w), n, w, 0) /\ Len(Header(w)) = HeaderCells
        BY <1>2, HeaderHolds
      <4> QED BY <1>3, <1>7, <4>1 DEF Holds
    <3>5. ASSUME NEW i \in 1 .. hc PROVE s[i] = h[i]
      <4>1. i \in 1 .. Len(x) /\ 0 + i = i
        BY <2>4, <1>7
      <4> QED BY <2>1, <2>2, <3>3, <3>4, <4>1
    <3>6. s = h
      BY <3>3, <3>4, <3>5, SameCells
    <3> QED BY <3>1, <3>4, <3>6
  <2> QED BY <2>3, <2>4
<1>10. CASE /\ Len(reader.buffer) >= HeaderCells
            /\ \E fb \in FrameSizes :
                /\ SubSeq(reader.buffer, 1, HeaderCells) = Header(fb)
                /\ reader' = [reader EXCEPT !.phase = "frames", !.fb = fb,
                                 !.buffer = SubSeq(@, HeaderCells + 1, Len(@))]
  <2>1. PICK fb \in FrameSizes :
          /\ SubSeq(reader.buffer, 1, HeaderCells) = Header(fb)
          /\ reader' = [reader EXCEPT !.phase = "frames", !.fb = fb,
                           !.buffer = SubSeq(@, HeaderCells + 1, Len(@))]
    BY <1>10
  <2>2. PICK r2 : r2 = reader' /\ Enters(reader, fb, r2)
    BY <2>1 DEF Enters
  <2>3. fb \in Nat /\ fb > 0 /\ HeaderCells <= Len(reader.buffer)
    <3>1. Len(reader.buffer) \in Nat
      BY <1>6, ReaderFields
    <3> QED BY <1>10, <3>1, FramingNumbers
  <2>4. ReaderOK(r2, n, w, object, damage) /\ (fb = w => Untouched(r2, w))
    BY <1>1, <1>3, <1>4, <1>5, <2>2, <2>3, HeaderOK
  <2>5. damage = "none" => fb = w
    <3>1. damage = "none" => Header(fb) = Header(w)
      BY <1>7, <1>9, <1>10, <2>1
    <3>2. Header(fb)[1].index = fb /\ Header(w)[1].index = w
      BY FramingNumbers DEF Header
    <3> QED BY <3>1, <3>2
  <2> QED BY <1>1, <1>2, <1>4, <2>2, <2>4, <2>5, ReadStep
<1>11. CASE /\ Len(reader.buffer) >= HeaderCells
            /\ SubSeq(reader.buffer, 1, HeaderCells) \notin {Header(fb) : fb \in FrameSizes}
            /\ Ends("failed")
  <2>1. w \in FrameSizes
    BY <1>2 DEF FrameInv, Writers
  <2>2. damage # "none"
    BY <1>7, <1>9, <1>11, <2>1
  <2> QED BY <1>1, <1>11, <2>2, FailStep
<1>12. CASE Len(reader.buffer) < HeaderCells /\ reader.source = <<>> /\ Ends("failed")
  <2>1. damage # "none"
    BY <1>7, <1>9, <1>12
  <2> QED BY <1>1, <1>12, <2>1, FailStep
<1> QED BY <1>10, <1>11, <1>12, Zenon DEF frame_size

(* What the buffer holds is what lies where the read has come to.          *)
LEMMA FacingBuffer ==
    ASSUME NEW n \in Nat, NEW w \in Nat, NEW o, o \in Seq(TrueCells(n, w)), NEW d,
           NEW r, ReaderOK(r, n, w, o, d), r.phase = "frames", Len(r.buffer) > 0
    PROVE  /\ r.fb + FrameOverhead <= Len(r.buffer) =>
                Facing(o, r, n, w, SubSeq(r.buffer, 1, r.fb + FrameOverhead),
                       SubSeq(r.buffer, r.fb + FrameOverhead + 1, Len(r.buffer)))
           /\ Len(r.buffer) < r.fb + FrameOverhead /\ r.source = <<>> =>
                Facing(o, r, n, w, r.buffer, <<>>)
<1>1. PICK T : T = TrueCells(n, w) /\ o \in Seq(T)
  OBVIOUS
<1>2. r \in Readers(T)
  BY <1>1 DEF ReaderOK
<1>3. PICK i \in Nat, fb \in Nat, m \in Nat, x \in Seq(T), y \in Seq(T), lx \in Nat :
        /\ i = r.index /\ fb = r.fb /\ m = fb + FrameOverhead /\ x = r.buffer /\ y = r.source
        /\ lx = Len(x) /\ m > 0 /\ lx > 0
  <2>1. r.index \in Nat /\ r.fb \in Nat /\ r.buffer \in Seq(T) /\ r.source \in Seq(T)
          /\ Len(r.buffer) \in Nat
    BY <1>2, ReaderFields
  <2>2. r.fb + FrameOverhead \in Nat /\ r.fb + FrameOverhead > 0
    BY <2>1, FramingNumbers
  <2> QED BY <2>1, <2>2
<1>4. r.range = Absence \/ (r.fb > 0 /\ r.range.length > 0)
  BY DEF ReaderOK, RangeRead
<1>5. PICK b \in Nat, e \in Nat, z \in Nat :
        b = Base(r) /\ e = End(r, o) /\ z = Len(o) /\ e <= z /\ b = ciphertext_offset(i, fb)
  <2>1. Base(r) \in Nat /\ End(r, o) \in Nat /\ End(r, o) <= Len(o)
    BY <1>1, <1>2, <1>4, Bounds
  <2>2. Base(r) = ciphertext_offset(i, fb)
    BY <1>3 DEF Base
  <2>3. Len(o) \in Nat
    BY <1>1
  <2> QED BY <2>1, <2>2, <2>3
<1>6. Window(o, b, e, x, y)
  BY <1>3, <1>5 DEF ReaderOK
<1>7. PICK ly \in Nat : /\ ly = Len(y) /\ lx + ly = (IF b <= e THEN e - b ELSE 0)
                        /\ \A p \in 1 .. lx : x[p] = o[b + p]
  <2>1. /\ Len(x) + Len(y) = (IF b <= e THEN e - b ELSE 0)
        /\ \A p \in 1 .. Len(x) : x[p] = o[b + p]
    BY <1>6, Zenon DEF Window
  <2>2. PICK ly \in Nat : ly = Len(y)
    OBVIOUS
  <2>3. /\ lx + ly = (IF b <= e THEN e - b ELSE 0)
        /\ \A p \in 1 .. lx : x[p] = o[b + p]
    BY <1>3, <2>1, <2>2, Zenon
  <2> QED BY <2>2, <2>3, Zenon
<1>8. b + 1 \in 1 .. z /\ x[1] = o[b + 1]
  <2>1. 1 \in 1 .. lx
    BY <1>3
  <2>2. x[1] = o[b + 1]
    BY <1>7, <2>1, Zenon
  <2>3. b + 1 <= e
    <3>1. lx > 0
      BY <1>3
    <3>2. lx + ly = (IF b <= e THEN e - b ELSE 0)
      BY <1>7
    <3> QED BY <3>1, <3>2
  <2> QED BY <1>5, <2>2, <2>3
<1>9. ciphertext_offset(i + 1, fb) = b + m
  <2>1. ciphertext_offset(i + 1, fb) = ciphertext_offset(i, fb) + fb + FrameOverhead
    BY Offsets
  <2> QED BY <1>3, <1>5, <2>1, FramingNumbers
<1>10. ASSUME m <= lx PROVE Facing(o, r, n, w, SubSeq(x, 1, m), SubSeq(x, m + 1, Len(x)))
  <2>1. PICK x2, b2 : x2 = Without(x, m) /\ b2 = b + m
    OBVIOUS
  <2>2. Window(o, b2, e, x2, y) /\ x2 \in Seq(T)
    <3>1. m <= Len(x)
      BY <1>3, <1>10
    <3> QED BY <1>6, <2>1, <3>1, WindowDropped, Zenon
  <2>3. x2 = SubSeq(x, m + 1, Len(x))
    BY <2>1 DEF Without
  <2>4. PICK c : c = SubSeq(x, 1, m)
    OBVIOUS
  <2>5. Part(T, SubSeq(x, 1, m), x, 1, m)
    BY <1>3, <1>10, Parted
  <2>6. c \in Seq(T) /\ Len(c) = m
    BY <2>4, <2>5 DEF Part
  <2>7. c[1] = x[1]
    <3>1. 1 \in 1 .. m /\ 1 + 1 - 1 = 1
      BY <1>3
    <3>2. c[1] = x[1 + 1 - 1]
      BY <2>4, <2>5, <2>6, <3>1 DEF Part
    <3> QED BY <3>1, <3>2
  <2>8. Facing(o, r, n, w, c, x2)
    <3>1. c \in Seq(TrueCells(n, w)) /\ x2 \in Seq(TrueCells(n, w)) /\ Len(c) > 0
      BY <1>1, <1>3, <2>2, <2>6
    <3>2. Base(r) + 1 \in 1 .. Len(o) /\ c[1] = o[Base(r) + 1]
      BY <1>5, <1>8, <2>7
    <3>3. Window(o, ciphertext_offset(r.index + 1, r.fb), End(r, o), x2, r.source)
      BY <1>3, <1>5, <1>9, <2>1, <2>2
    <3> QED BY <3>1, <3>2, <3>3 DEF Facing
  <2> QED BY <2>3, <2>4, <2>8
<1>11. ASSUME lx < m, y = <<>> PROVE Facing(o, r, n, w, x, <<>>)
  <2>1. ly = 0
    BY <1>7, <1>11
  <2>2. e - b = lx /\ ~ b + m <= e
    <3>1. lx > 0
      BY <1>3
    <3>2. lx + ly = (IF b <= e THEN e - b ELSE 0)
      BY <1>7
    <3> QED BY <1>11, <2>1, <3>1, <3>2
  <2>3. Window(o, b + m, e, <<>>, <<>>)
    <3>1. Len(<<>>) = 0 /\ 1 .. 0 = {}
      OBVIOUS
    <3> QED BY <2>2, <3>1 DEF Window
  <2>4. x \in Seq(TrueCells(n, w)) /\ <<>> \in Seq(TrueCells(n, w)) /\ Len(x) > 0
    BY <1>1, <1>3
  <2>5. Base(r) + 1 \in 1 .. Len(o) /\ x[1] = o[Base(r) + 1]
    BY <1>5, <1>8
  <2>6. Window(o, ciphertext_offset(r.index + 1, r.fb), End(r, o), <<>>, r.source)
    BY <1>3, <1>5, <1>9, <1>11, <2>3
  <2> QED BY <2>4, <2>5, <2>6 DEF Facing
<1> QED BY <1>3, <1>10, <1>11

(* One turn of the loop.                                                   *)
LEMMA TurnStep ==
    ASSUME FrameInv, reader.phase = "frames", writer' = writer, object' = object,
           damage' = damage,
           NEW cells, NEW rest, Facing(object, reader, writer.size, writer.fb, cells, rest),
           Opened(cells, rest),
           damage = "none" /\ reader.fb = writer.fb => _open_frame(cells, reader.index) # {}
    PROVE  FrameInv'
<1>1. PICK n \in Nat, w \in Nat : n = writer.size /\ w = writer.fb /\ w > 0
  BY WriterNumbers
<1>2. /\ writer.phase = "stored" /\ object \in Seq(TrueCells(n, w))
      /\ (damage # "rearranged" => InPlace(object, w))
  BY <1>1, StoredNow
<1>3. ReaderOK(reader, n, w, object, damage) /\ (damage = "none" => Untouched(reader, w))
  BY <1>1 DEF FrameInv
<1>4. CASE _open_frame(cells, reader.index) = {}
  <2>1. Ends("failed")
    BY <1>4, Zenon DEF Opened
  <2>2. damage = "none" => ~ (reader.range = Absence \/ reader.fb = writer.fb)
    BY <1>1, <1>3, <1>4 DEF Untouched
  <2> QED BY <2>1, <2>2, FailStep
<1>5. CASE _open_frame(cells, reader.index) # {}
  <2>1. ReaderOK(reader', n, w, object, damage)
          /\ (Untouched(reader, w) => Untouched(reader', w))
    BY <1>1, <1>2, <1>3, <1>5, TurnOK
  <2> QED BY <1>1, <1>2, <1>3, <2>1, ReadStep
<1> QED BY <1>4, <1>5

(* An intact object opens where the read has come to.                      *)
LEMMA IntactOpens ==
    ASSUME FrameInv, reader.phase = "frames", damage = "none", reader.fb = writer.fb
    PROVE  \/ OpensNow(reader, writer.fb)
           \/ reader.range = Absence /\ reader.final
                /\ Len(reader.buffer) + Len(reader.source) = 0
<1>1. PICK n \in Nat, w \in Nat, j \in Nat : n = writer.size /\ w = writer.fb
             /\ j = writer.index /\ w > 0
  BY WriterNumbers
<1>2. /\ object \in Seq(TrueCells(n, w)) /\ Valid(n, w, j) /\ IsFinal(n, w, j)
           /\ Whole(object, n, w, j)
  BY <1>1, StoredNow
<1>3. ReaderOK(reader, n, w, object, damage)
  BY <1>1 DEF FrameInv
<1>4. reader.fb = w /\ reader.phase = "frames"
  BY <1>1
<1>5. PICK r, o, d : r = reader /\ o = object /\ d = damage
  OBVIOUS
<1>6. OpensNow(r, w) \/ (r.range = Absence /\ r.final /\ Len(r.buffer) + Len(r.source) = 0)
  <2>1. /\ o \in Seq(TrueCells(n, w)) /\ Valid(n, w, j) /\ IsFinal(n, w, j) /\ Whole(o, n, w, j)
        /\ ReaderOK(r, n, w, o, d) /\ r.phase = "frames" /\ r.fb = w /\ w > 0
    BY <1>1, <1>2, <1>3, <1>4, <1>5
  <2> QED BY <2>1, OpensHere
<1> QED BY <1>1, <1>5, <1>6

(* Lengths of the buffer and of the source.                                *)
LEMMA BufferNumbers ==
    ASSUME FrameInv
    PROVE  /\ Len(reader.buffer) \in Nat /\ Len(reader.source) \in Nat /\ reader.fb \in Nat
           /\ (reader.buffer = <<>> => Len(reader.buffer) = 0)
           /\ (reader.source = <<>> => Len(reader.source) = 0)
<1>1. reader \in Readers(TrueCells(writer.size, writer.fb))
  BY DEF FrameInv, ReaderOK
<1>2. Len(<<>>) = 0
  OBVIOUS
<1> QED BY <1>1, <1>2, ReaderFields

(* next_frame.                                                             *)
LEMMA NextFrameStep == ASSUME FrameInv, next_frame PROVE FrameInv'
<1>1. /\ writer' = writer /\ object' = object /\ damage' = damage /\ reader.phase = "frames"
      /\ Len(reader.buffer) >= reader.fb + FrameOverhead
      /\ Opened(SubSeq(reader.buffer, 1, reader.fb + FrameOverhead),
                SubSeq(reader.buffer, reader.fb + FrameOverhead + 1, Len(reader.buffer)))
  BY DEF next_frame, Wanted
<1>2. PICK n \in Nat, w \in Nat : n = writer.size /\ w = writer.fb /\ w > 0
  BY WriterNumbers
<1>3. object \in Seq(TrueCells(n, w)) /\ ReaderOK(reader, n, w, object, damage)
  BY <1>1, <1>2, StoredNow DEF FrameInv
<1>4. /\ Len(reader.buffer) > 0 /\ reader.fb + FrameOverhead <= Len(reader.buffer)
      /\ Len(reader.buffer) + Len(reader.source) # 0
  <2>1. PICK lb \in Nat, ls \in Nat, fb \in Nat, fo \in Nat :
          /\ lb = Len(reader.buffer) /\ ls = Len(reader.source) /\ fb = reader.fb
          /\ fo = FrameOverhead /\ fo > 0
    BY BufferNumbers, FramingNumbers, Zenon
  <2>2. lb >= fb + fo
    BY <1>1, <2>1
  <2>3. lb > 0 /\ fb + fo <= lb /\ lb + ls # 0
    <3>1. fo > 0
      BY <2>1
    <3> QED BY <2>2, <3>1
  <2> QED BY <2>1, <2>3
<1>5. PICK cells, rest : /\ cells = SubSeq(reader.buffer, 1, reader.fb + FrameOverhead)
                         /\ rest = SubSeq(reader.buffer, reader.fb + FrameOverhead + 1, Len(reader.buffer))
  OBVIOUS
<1>6. Facing(object, reader, n, w, cells, rest)
  BY <1>1, <1>3, <1>4, <1>5, FacingBuffer
<1>7. damage = "none" /\ reader.fb = writer.fb => _open_frame(cells, reader.index) # {}
  BY <1>1, <1>4, <1>5, IntactOpens DEF OpensNow
<1> QED BY <1>1, <1>2, <1>5, <1>6, <1>7, TurnStep

(* last_frames.                                                            *)
LEMMA LastFramesStep == ASSUME FrameInv, last_frames PROVE FrameInv'
<1>1. /\ writer' = writer /\ object' = object /\ damage' = damage /\ reader.phase = "frames"
      /\ Len(reader.buffer) < reader.fb + FrameOverhead /\ reader.source = <<>>
      /\ \/ Len(reader.buffer) >= FrameOverhead /\ Opened(reader.buffer, <<>>)
         \/ Len(reader.buffer) \in 1 .. FrameOverhead - 1 /\ Ends("failed")
         \/ reader.buffer = <<>> /\ stream_over
  BY DEF last_frames, Wanted
<1>2. PICK n \in Nat, w \in Nat : n = writer.size /\ w = writer.fb /\ w > 0
  BY WriterNumbers
<1>3. /\ object \in Seq(TrueCells(n, w)) /\ ReaderOK(reader, n, w, object, damage)
      /\ (damage = "none" => Untouched(reader, w)) /\ writer.phase = "stored"
  BY <1>1, <1>2, StoredNow DEF FrameInv
<1>4. CASE Len(reader.buffer) >= FrameOverhead /\ Opened(reader.buffer, <<>>)
  <2>1. Len(reader.buffer) > 0 /\ Len(reader.buffer) + Len(reader.source) # 0
    <3>1. PICK lb \in Nat, ls \in Nat, fo \in Nat :
            lb = Len(reader.buffer) /\ ls = Len(reader.source) /\ fo = FrameOverhead /\ fo > 0
      BY BufferNumbers, FramingNumbers, Zenon
    <3>2. lb >= fo
      BY <1>4, <3>1
    <3>3. lb > 0 /\ lb + ls # 0
      <4>1. fo > 0
        BY <3>1
      <4> QED BY <3>2, <4>1
    <3> QED BY <3>1, <3>3
  <2>2. Facing(object, reader, n, w, reader.buffer, <<>>)
    BY <1>1, <1>3, <2>1, FacingBuffer
  <2>3. damage = "none" /\ reader.fb = writer.fb
          => _open_frame(reader.buffer, reader.index) # {}
    BY <1>1, <2>1, IntactOpens DEF OpensNow
  <2>4. PICK cells, rest : cells = reader.buffer /\ rest = <<>>
    OBVIOUS
  <2> QED BY <1>1, <1>2, <1>4, <2>2, <2>3, <2>4, TurnStep
<1>5. CASE Len(reader.buffer) \in 1 .. FrameOverhead - 1 /\ Ends("failed")
  <2>1. ASSUME damage = "none", reader.fb = writer.fb PROVE FALSE
    <3>1. Len(reader.buffer) + Len(reader.source) # 0
      <4>1. PICK lb \in Nat, ls \in Nat : lb = Len(reader.buffer) /\ ls = Len(reader.source)
        BY BufferNumbers, Zenon
      <4>2. lb > 0
        BY <1>5, <4>1, FramingNumbers
      <4>3. lb + ls # 0
        BY <4>2
      <4> QED BY <4>1, <4>3
    <3>2. _open_frame(reader.buffer, reader.index) # {}
      BY <1>1, <2>1, <3>1, IntactOpens DEF OpensNow
    <3>3. PICK c \in _open_frame(reader.buffer, reader.index) : TRUE
      BY <3>2
    <3>4. reader.buffer \in Seq(TrueCells(n, w)) /\ reader.index \in Nat
      BY <1>3, ReaderFields DEF ReaderOK
    <3>5. /\ reader.buffer = _seal_frame(Data(n, w, reader.index), reader.index, IsFinal(n, w, reader.index))
          /\ Valid(n, w, reader.index)
      BY <1>2, <1>5, <3>3, <3>4, OpensTrue
    <3>6. Len(reader.buffer) = Len(Data(n, w, reader.index)) + FrameOverhead
      BY <1>2, <3>5, SealedFrame
    <3>7. Len(Data(n, w, reader.index)) \in Nat
      BY <1>2, <3>5, DataOf
    <3> QED BY <1>5, <3>6, <3>7, FramingNumbers
  <2>2. damage = "none" => ~ (reader.range = Absence \/ reader.fb = writer.fb)
    BY <1>1, <1>2, <1>3, <2>1 DEF Untouched
  <2> QED BY <1>1, <1>5, <2>2, FailStep
<1>6. CASE reader.buffer = <<>> /\ stream_over
  <2>1. Len(reader.buffer) + Len(reader.source) = 0
    BY <1>1, <1>6, BufferNumbers
  <2>2. damage = "none" /\ reader.fb = writer.fb => reader.range = Absence /\ reader.final
    BY <1>1, <2>1, IntactOpens DEF OpensNow
  <2>3. damage = "none" /\ reader.range = Absence => reader.final
    BY <1>1, <1>2, <1>3, <2>2 DEF Untouched
  <2>4. CASE reader.range # Absence \/ reader.final
    <3>1. PICK ph \in {"done", "failed"} : ph = "done"
      OBVIOUS
    <3>5. PICK r2 : r2 = reader'
      OBVIOUS
    <3>2. EndsAs(reader, ph, r2)
      BY <1>6, <2>4, <3>1, <3>5 DEF stream_over, Ends, EndsAs
    <3>3. /\ ReaderOK(r2, n, w, object, damage) /\ r2.phase = ph /\ r2.range = reader.range
          /\ r2.out = reader.out /\ r2.fb = reader.fb
      BY <1>1, <1>3, <2>4, <3>1, <3>2, EndedOK
    <3>4. damage = "none" => Untouched(r2, w)
      BY <1>1, <1>2, <1>3, <2>2, <3>1, <3>3 DEF Untouched
    <3> QED BY <1>1, <1>2, <1>3, <3>3, <3>4, <3>5, ReadStep
  <2>5. CASE reader.range = Absence /\ ~ reader.final
    <3>1. Ends("failed")
      BY <1>6, <2>5 DEF stream_over
    <3>2. damage # "none"
      BY <2>3, <2>5
    <3> QED BY <1>1, <3>1, <3>2, FailStep
  <2> QED BY <2>4, <2>5
<1> QED BY <1>1, <1>4, <1>5, <1>6

-----------------------------------------------------------------------------
(* The invariant and what follows from it.                                 *)
(* At first only the header is written, and nobody reads.                  *)
LEMMA InitHolds == ASSUME FrameInit PROVE FrameInv
<1>1. PICK n \in PlainSizes, w \in FrameSizes :
        /\ writer = [phase |-> "seal", size |-> n, fb |-> w, taken |-> 0, buffer |-> <<>>, index |-> 0]
        /\ object = Header(w)
  BY DEF FrameInit
<1>2. damage = "none" /\ reader = Idle
  BY DEF FrameInit
<1>3. n \in Nat /\ w \in Nat /\ w > 0
  BY FramingNumbers
<1>4. writer \in Writers
  BY <1>1 DEF Writers
<1>5. /\ writer.phase = "seal" /\ writer.size = n /\ writer.fb = w /\ writer.taken = 0
      /\ writer.buffer = <<>> /\ writer.index = 0
  BY <1>1
<1>6. Holds(object, n, w, 0) /\ Len(object) = ciphertext_offset(0, w)
  <2>1. Holds(Header(w), n, w, 0) /\ Len(Header(w)) = HeaderCells
    BY <1>3, HeaderHolds
  <2>2. ciphertext_offset(0, w) = HeaderCells
    BY <1>3, Offsets
  <2> QED BY <1>1, <2>1, <2>2
<1>7. Sealing(writer, object)
  <2>1. Len(<<>>) = 0 /\ 0 * w + 0 = 0 /\ 1 .. 0 = {} /\ 0 <= n
    BY <1>3
  <2> QED BY <1>5, <1>6, <2>1 DEF Sealing
<1>8. ReaderOK(Idle, n, w, object, "none") /\ Untouched(Idle, w)
  <2>1. PICK o : o = object
    OBVIOUS
  <2>2. ReaderOK(Idle, n, w, o, "none") /\ Untouched(Idle, w)
    BY <1>3, IdleOK
  <2> QED BY <2>1, <2>2
<1> QED BY <1>2, <1>4, <1>5, <1>7, <1>8 DEF FrameInv, Damages

(* A step that changes nothing.                                            *)
LEMMA FrameStutter == ASSUME FrameInv, UNCHANGED frameVars PROVE FrameInv'
<1>1. writer' = writer /\ object' = object /\ damage' = damage /\ reader' = reader
  BY DEF frameVars
<1> QED BY <1>1 DEF FrameInv

(* Whoever writes, damages or reads, the parts of FrameInv hold: what is   *)
(* sealed so far, what the store may have made of it, and the place that   *)
(* seal and open of the content cipher have come to.                       *)
THEOREM FramesKept == FrameSpec => []FrameInv
<1>1. FrameInit => FrameInv
  BY InitHolds
<1>2. FrameInv /\ [FrameNext]_frameVars => FrameInv'
  <2> SUFFICES ASSUME FrameInv, [FrameNext]_frameVars PROVE FrameInv'
    OBVIOUS
  <2>1. ASSUME NEW k \in Chunks, seal_chunk(k) \/ _pull(k) PROVE FrameInv'
    BY <2>1, ChunkStep, PullStep
  <2>2. CASE seal_frame \/ seal_last
    BY <2>2, FrameStep, LastStep
  <2>3. CASE truncated \/ rearranged \/ substituted
    BY <2>3, CutStep, RearrangeStep, SwapStep
  <2>4. ASSUME NEW fb \in FrameSizes, NEW first \in {Absence} \cup 0 .. writer.size,
               NEW last \in {Absence} \cup 0 .. writer.size, _open_encrypted(first, last, fb)
        PROVE  FrameInv'
    BY <2>4, OpenStep
  <2>5. CASE frame_size \/ next_frame \/ last_frames
    BY <2>5, HeaderStep, NextFrameStep, LastFramesStep
  <2>6. CASE UNCHANGED frameVars
    BY <2>6, FrameStutter
  <2> QED BY <2>1, <2>2, <2>3, <2>4, <2>5, <2>6, Zenon DEF FrameNext
<1> QED BY <1>1, <1>2, PTL DEF FrameSpec

(* What came out, compared with what was asked for.                        *)
LEMMA Prefixed ==
    ASSUME NEW a \in Seq(Nat), NEW u \in Seq(Nat), NEW f \in Nat, TrueFrom(a, f),
           TrueFrom(u, f),
           Len(u) <= Len(a)
    PROVE  IsPrefix(u, a) /\ (Len(u) = Len(a) => u = a)
<1>1. PICK l \in Nat, m \in Nat : l = Len(u) /\ m = Len(a) /\ l <= m
  OBVIOUS
<1>2. PICK s : s = SubSeq(a, 1, l)
  OBVIOUS
<1>3. Part(Nat, SubSeq(a, 1, l), a, 1, l)
  BY <1>1, Parted
<1>4. s \in Seq(Nat) /\ Len(s) = l
  BY <1>2, <1>3 DEF Part
<1>5. ASSUME NEW k \in 1 .. l PROVE u[k] = s[k]
  <2>1. s[k] = a[1 + k - 1] /\ 1 + k - 1 = k
    BY <1>2, <1>3, <1>4 DEF Part
  <2>2. k \in 1 .. Len(a) /\ k \in 1 .. Len(u)
    BY <1>1
  <2>3. a[k] = f + k /\ u[k] = f + k
    BY <2>2 DEF TrueFrom
  <2> QED BY <2>1, <2>3
<1>6. u = s
  BY <1>1, <1>4, <1>5, SameCells
<1>7. SubSeq(u, 1, Len(u)) = u /\ SubSeq(a, 1, Len(a)) = a
  BY WholePiece
<1> QED BY <1>1, <1>2, <1>6, <1>7 DEF IsPrefix

(* The bytes of a range of the plaintext.                                  *)
LEMMA PlainFrom ==
    ASSUME NEW n \in Nat, NEW st \in Nat, NEW l \in Nat, st + l <= n
    PROVE  /\ Plain(n) \in Seq(Nat) /\ Len(Plain(n)) = n /\ TrueFrom(Plain(n), 0)
           /\ SubSeq(Plain(n), st + 1, st + l) \in Seq(Nat)
                /\ Len(SubSeq(Plain(n), st + 1, st + l)) = l
           /\ TrueFrom(SubSeq(Plain(n), st + 1, st + l), st)
<1>1. PICK p : p = Plain(n)
  OBVIOUS
<1>2. p \in Seq(Nat) /\ Len(p) = n /\ \A k \in 1 .. n : p[k] = k
  BY <1>1 DEF Plain
<1>3. TrueFrom(p, 0)
  BY <1>2 DEF TrueFrom
<1>4. PICK a \in Nat, b \in Nat : a = st + 1 /\ b = st + l /\ a >= 1 /\ b <= Len(p)
  BY <1>2
<1>5. PICK s : s = SubSeq(p, a, b)
  OBVIOUS
<1>6. Part(Nat, SubSeq(p, a, b), p, a, b)
  BY <1>2, <1>4, Parted
<1>7. s \in Seq(Nat) /\ Len(s) = l
  <2>1. s \in Seq(Nat) /\ Len(s) = IF a <= b THEN b - a + 1 ELSE 0
    BY <1>5, <1>6 DEF Part
  <2> QED BY <1>4, <2>1
<1>8. ASSUME NEW k \in 1 .. Len(s) PROVE s[k] = st + k
  <2>1. s[k] = p[a + k - 1]
    BY <1>5, <1>6 DEF Part
  <2>2. a + k - 1 = st + k /\ st + k \in 1 .. n
    BY <1>4, <1>7
  <2> QED BY <1>2, <2>1, <2>2
<1>9. TrueFrom(s, st)
  BY <1>8 DEF TrueFrom
<1> QED BY <1>1, <1>2, <1>3, <1>4, <1>5, <1>7, <1>9

(* What came out is what was asked for, as far as it goes.                 *)
LEMMA OutAndAsked ==
    ASSUME FrameInv, ~ Exempt(reader, writer.fb, damage)
    PROVE  /\ IsPrefix(reader.out, Asked)
           /\ reader.range = Absence /\ reader.final => reader.out = Asked
           /\ reader.range # Absence /\ Len(reader.out) = reader.range.length
                => reader.out = Asked
<1>1. PICK n \in Nat, w \in Nat : n = writer.size /\ w = writer.fb /\ w > 0
  BY WriterNumbers
<1>2. ReaderOK(reader, n, w, object, damage)
  BY <1>1 DEF FrameInv
<1>3. PICK u \in Seq(Nat), lu \in Nat : u = reader.out /\ lu = Len(u)
  <2>1. reader.out \in Seq(Nat) /\ Len(reader.out) \in Nat
    BY <1>2, ReaderFields DEF ReaderOK
  <2> QED BY <2>1
<1>4. TrueFrom(u, First(reader))
  BY <1>1, <1>2, <1>3 DEF ReaderOK, TrueOut, TrueFrom
<1>5. CASE reader.range = Absence
  <2>1. WholeRead(reader, n, w) /\ Asked = Plain(n) /\ First(reader) = 0
    BY <1>1, <1>2, <1>5 DEF ReaderOK, Asked, First
  <2>2. n + 0 <= n
    OBVIOUS
  <2>3. Plain(n) \in Seq(Nat) /\ Len(Plain(n)) = n /\ TrueFrom(Plain(n), 0)
    BY <2>2, PlainFrom
  <2>4. lu <= n /\ (reader.final => lu = n)
    <3>1. CASE reader.final
      BY <1>3, <2>1, <3>1 DEF WholeRead
    <3>2. CASE ~ reader.final
      <4>1. lu = reader.index * w /\ (reader.index = 0 \/ reader.index * w < n)
        BY <1>3, <2>1, <3>2 DEF WholeRead, Valid
      <4>2. 0 * w = 0
        OBVIOUS
      <4> QED BY <3>2, <4>1, <4>2
    <3> QED BY <3>1, <3>2
  <2>5. PICK a \in Seq(Nat) : a = Plain(n) /\ TrueFrom(a, 0) /\ Len(a) = n
    BY <2>3
  <2>6. IsPrefix(u, a) /\ (Len(u) = Len(a) => u = a)
    <3>1. Len(u) <= Len(a) /\ TrueFrom(u, 0) /\ 0 \in Nat
      BY <1>3, <1>4, <2>1, <2>4, <2>5
    <3> QED BY <2>5, <3>1, Prefixed
  <2> QED BY <1>3, <1>5, <2>1, <2>4, <2>5, <2>6
<1>6. CASE reader.range # Absence
  <2>1. reader.range \in [start : Nat, length : Nat]
    BY <1>2, <1>6, ReaderFields DEF ReaderOK
  <2>2. PICK st \in Nat, l \in Nat : st = reader.range.start /\ l = reader.range.length
    BY <2>1
  <2>3. RangeRead(reader, n, w, damage) /\ First(reader) = st
    BY <1>2, <1>6, <2>2 DEF ReaderOK, First
  <2>4. Asked = SubSeq(Plain(n), st + 1, st + l)
    BY <1>1, <1>6, <2>2 DEF Asked
  <2>5. st + l <= n /\ lu <= l
    BY <1>3, <2>2, <2>3 DEF RangeRead
  <2>6. PICK a : a = SubSeq(Plain(n), st + 1, st + l) /\ a \in Seq(Nat) /\ Len(a) = l
               /\ TrueFrom(a, st)
    BY <2>5, PlainFrom
  <2>7. IsPrefix(u, a) /\ (Len(u) = Len(a) => u = a)
    <3>1. Len(u) <= Len(a) /\ TrueFrom(u, st)
      BY <1>3, <1>4, <2>3, <2>5, <2>6
    <3> QED BY <2>6, <3>1, Prefixed
  <2> QED BY <1>3, <1>6, <2>2, <2>4, <2>6, <2>7
<1> QED BY <1>5, <1>6

(* open serves no byte that was not asked for at that place, whatever the  *)
(* store did to the object or the operator to the frame size: for any      *)
(* sizes of plaintext, frames and chunks.                                  *)
THEOREM ServedBytesAreTrue == FrameSpec => []OnlyTrueBytes
<1>1. FrameInv => OnlyTrueBytes
  <2> SUFFICES ASSUME FrameInv PROVE OnlyTrueBytes
    OBVIOUS
  <2>1. ReaderOK(reader, writer.size, writer.fb, object, damage)
    BY DEF FrameInv
  <2>2. IsPrefix(reader.out, Asked)
          \/ (damage = "rearranged" /\ reader.range # Absence /\ reader.fb # writer.fb)
    BY OutAndAsked DEF Exempt
  <2>3. ASSUME reader.phase = "done", reader.range = Absence PROVE reader.out = Asked
    <3>1. reader.final
      BY <2>1, <2>3 DEF ReaderOK, WholeRead
    <3>2. ~ Exempt(reader, writer.fb, damage)
      BY <2>3 DEF Exempt
    <3> QED BY <2>3, <3>1, <3>2, OutAndAsked
  <2> QED BY <2>2, <2>3 DEF OnlyTrueBytes
<1> QED BY <1>1, FramesKept, PTL

(* What seal wrote has the announced length and open reads all of it,      *)
(* or the range asked for, for any sizes of plaintext, frames and chunks.  *)
THEOREM IntactObjectsOpen == FrameSpec => []IntactIsReadable
<1>1. FrameInv => IntactIsReadable
  <2> SUFFICES ASSUME FrameInv, damage = "none" PROVE IntactIsReadable
    BY DEF IntactIsReadable
  <2>1. ReaderOK(reader, writer.size, writer.fb, object, damage) /\ Untouched(reader, writer.fb)
    BY DEF FrameInv
  <2>2. ~ Exempt(reader, writer.fb, damage)
    BY DEF Exempt
  <2>3. ASSUME writer.phase = "stored"
        PROVE  /\ Len(object) = ciphertext_size(writer.size, writer.fb)
               /\ writer.index + 1 = frame_count(writer.size, writer.fb)
    <3>1. PICK n \in Nat, w \in Nat, j \in Nat : n = writer.size /\ w = writer.fb
                 /\ j = writer.index /\ w > 0
      BY WriterNumbers
    <3>2. Valid(n, w, j) /\ IsFinal(n, w, j) /\ Whole(object, n, w, j)
      BY <2>3, <3>1, StoredNow
    <3>3. PICK o : o = object
      OBVIOUS
    <3>4. Len(o) = ciphertext_size(n, w) /\ j + 1 = frame_count(n, w)
      BY <3>1, <3>2, <3>3, IntactSize
    <3> QED BY <3>1, <3>3, <3>4
  <2>4. ASSUME reader.range = Absence \/ reader.fb = writer.fb PROVE reader.phase # "failed"
    BY <2>1, <2>4 DEF Untouched
  <2>5. ASSUME reader.range = Absence \/ reader.fb = writer.fb, reader.phase = "done"
        PROVE  reader.out = Asked
    <3>1. CASE reader.range = Absence
      <4>1. reader.final
        BY <2>1, <2>5, <3>1 DEF ReaderOK, WholeRead
      <4> QED BY <2>2, <3>1, <4>1, OutAndAsked
    <3>2. CASE reader.range # Absence
      <4>1. Len(reader.out) = reader.range.length
        BY <2>1, <2>5, <3>2 DEF Untouched
      <4> QED BY <2>2, <3>2, <4>1, OutAndAsked
    <3> QED BY <3>1, <3>2
  <2> QED BY <2>3, <2>4, <2>5 DEF IntactIsReadable
<1> QED BY <1>1, FramesKept, PTL
=============================================================================
