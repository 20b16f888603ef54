------------------------------- MODULE KeyStore -------------------------------
(***************************************************************************)
(* packages/keys/src/keystore.ts: processes that load a key ring from one  *)
(* file, change it in memory (keyring.ts) and save it by writing a         *)
(* temporary file and renaming it.  There is no lock: loads, changes and   *)
(* saves of the processes interleave, and a process may stop between any   *)
(* two of them.  The file keeps the mode 0600 that save gives it.          *)
(***************************************************************************)
EXTENDS KeyRing

CONSTANTS
  Procs,
  None,         \* no ring in memory, no file, no temporary file
  Retentions,   \* the maxRetainedKeys that processes create rings with
  MaxRotation   \* bound: the last counter a ring gives out

ASSUME KeyStoreAssumption ==
  /\ None \notin Rings
  /\ Retentions \subseteq Nat
  /\ MaxRotation \in Nat

VARIABLES
  ring,   \* ring[p]: the KeyRing that process p holds
  tmp,    \* tmp[p]: the temporary file of p's save, None outside save
  file    \* the key ring file

vars == <<ring, tmp, file>>

Init ==
  /\ ring = [p \in Procs |-> None]
  /\ tmp = [p \in Procs |-> None]
  /\ file = None

\* KeyRing.create(options): no retention is refused.
New(p) ==
  /\ ring[p] = None
  /\ \E max \in Retentions : ring' = [ring EXCEPT ![p] = Create(max)]
  /\ UNCHANGED <<tmp, file>>

\* load(): an empty ring when there is no file, else what fromJSON gives; a file
\* that it rejects leaves the process without a ring.
Load(p) ==
  /\ ring[p] = None
  /\ \/ file = None /\ ring' = [ring EXCEPT ![p] = Create(DefaultMax)]
     \/ /\ file # None
        /\ Loadable(file)
        /\ ring' = [ring EXCEPT ![p] = file]
  /\ UNCHANGED <<tmp, file>>

\* A change of the ring in memory.
Change(p, changed) ==
  /\ ring' = [ring EXCEPT ![p] = changed]
  /\ UNCHANGED <<tmp, file>>

\* A key generated just now is in no ring and in no file.
Fresh(k) ==
  /\ \A p \in Procs : /\ ring[p] # None => k \notin Entries(ring[p])
                      /\ tmp[p] # None => k \notin Entries(tmp[p])
  /\ file # None => k \notin Entries(file)

CanAdd(p) == ring[p] # None /\ ring[p].next <= MaxRotation

RotateKey(p, k) ==
  /\ CanAdd(p)
  /\ k \notin Verifying
  /\ Fresh(k)
  /\ Change(p, Rotate(ring[p], k))

\* addKey of a KeyPair or of a PublicKey, importPrivate: a duplicate throws.
AddKey(p, k) ==
  /\ CanAdd(p)
  /\ k \notin Entries(ring[p])
  /\ Change(p, AddEntry(ring[p], k))

SetActive(p, k) ==
  /\ ring[p] # None
  /\ k \in Entries(ring[p])
  /\ Change(p, SetActiveKey(ring[p], k))

Remove(p, k) ==
  /\ ring[p] # None
  /\ k \in Entries(ring[p])
  /\ k # ring[p].active
  /\ Change(p, RemoveKey(ring[p], k))

\* save(): the ring is serialized into a temporary file of its own name.
SaveWrite(p) ==
  /\ ring[p] # None
  /\ tmp[p] = None
  /\ tmp' = [tmp EXCEPT ![p] = Json(ring[p])]
  /\ UNCHANGED <<ring, file>>

\* rename(tmp, path)
SaveRename(p) ==
  /\ tmp[p] # None
  /\ file' = tmp[p]
  /\ tmp' = [tmp EXCEPT ![p] = None]
  /\ UNCHANGED ring

\* The write or the rename fails: KeyStoreError, the ring stays in memory.
SaveFails(p) ==
  /\ tmp[p] # None
  /\ tmp' = [tmp EXCEPT ![p] = None]
  /\ UNCHANGED <<ring, file>>

\* The process ends, perhaps in the middle of a save.
Stop(p) ==
  /\ ring[p] # None
  /\ ring' = [ring EXCEPT ![p] = None]
  /\ tmp' = [tmp EXCEPT ![p] = None]
  /\ UNCHANGED file

Next ==
  \E p \in Procs :
    \/ New(p)
    \/ Load(p)
    \/ \E k \in Keys : RotateKey(p, k) \/ AddKey(p, k) \/ SetActive(p, k) \/ Remove(p, k)
    \/ SaveWrite(p)
    \/ SaveRename(p)
    \/ SaveFails(p)
    \/ Stop(p)

Spec == Init /\ [][Next]_vars

-----------------------------------------------------------------------------
\* Every ring there is: in memory, being written, and in the file.
AllRings == ({ring[p] : p \in Procs} \cup {tmp[p] : p \in Procs} \cup {file}) \ {None}

TypeOK ==
  /\ ring \in [Procs -> Rings \cup {None}]
  /\ tmp \in [Procs -> Rings \cup {None}]
  /\ file \in Rings \cup {None}

\* A ring in memory that retains two keys or more never loses its active key: it
\* is stored, and there is one as soon as there are keys, whatever was evicted,
\* removed, saved by another process and reloaded.  (Of a retention of one this
\* is false: rotate evicts the key that it then makes active, and save writes a
\* file that load rejects.)
ActiveIsStored ==
  \A p \in Procs :
    ring[p] # None /\ ring[p].max >= 2 =>
      Loadable(ring[p]) /\ (Entries(ring[p]) # {} => ring[p].active # NoKey)

\* A ring that can sign goes on signing: under a retention of two or more only
\* setActiveKey, which may choose a verification-only key, takes that away; not
\* an added key, an eviction or a removal.
SigningLostByChoice ==
  [][\A p \in Procs :
       ring[p] # None /\ ring'[p] # None /\ ring[p].max >= 2 /\ CanSign(ring[p])
         => CanSign(ring'[p]) \/ \E k \in Entries(ring[p]) : ring'[p] = SetActiveKey(ring[p], k)]_vars

\* No two stored keys have the same counter, so "oldest first" is well defined,
\* and the counter still to be given out is larger than all of them.
RotationsDistinct ==
  \A r \in AllRings :
    /\ \A j, k \in Entries(r) : r.rotation[j] = r.rotation[k] => j = k
    /\ \A k \in Entries(r) : r.rotation[k] < r.next

\* "maxRetainedKeys bounds history", as far as the value is known: a ring that
\* was created with a larger one and reloaded keeps what it has until it grows.
\* The active key stays even if nothing is to be retained.
HistoryBounded ==
  \A r \in AllRings :
    \E max \in Retentions \cup {r.max, 1} : Cardinality(Entries(r)) <= max

\* Signatures stay verifiable: adding a key drops an older one only when
\* retention - 1 keys newer than the dropped one are kept, and under a retention
\* of two or more the added key itself is kept.
RecentKeysKept ==
  [][\A p \in Procs :
       ring[p] # None /\ ring'[p] # None /\ ring'[p].next > ring[p].next =>
         /\ ring[p].max >= 2 => \E k \in Keys : ring'[p].rotation[k] = ring[p].next
         /\ \A k \in Entries(ring[p]) \ Entries(ring'[p]) :
              Cardinality({j \in Entries(ring'[p]) :
                             ring'[p].rotation[j] > ring[p].rotation[k]}) >= ring[p].max - 1]_vars
=============================================================================
