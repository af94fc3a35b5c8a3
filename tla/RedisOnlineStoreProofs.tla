----------------------- MODULE RedisOnlineStoreProofs -----------------------
(* What holds of the Redis store for any zones, batches, put_many calls and
   reads, when put_many calls do not overlap, wherever they are killed. *)
EXTENDS RedisOnlineStore, TLAPS

(* What a put_many under way knows: the keys it is about to delete are those
   of the whole index, and the zones still to come are not on offer. *)
PutInv(w) ==
  /\ writer[w].batch \in Batches
  /\ writer[w].left \subseteq ZonesOf(writer[w].batch)
  /\ writer[w].pc = "delete" => writer[w].keys = index
  /\ writer[w].pc \in {"set", "sadd"} => writer[w].left \cap index = {}
  /\ writer[w].pc = "sadd" =>
       /\ writer[w].zone \in Zones \ (index \cup writer[w].left)
       /\ row[writer[w].zone] # NoRow

SerialInv ==
  /\ RedisTypeOK
  /\ \A v, w \in Writers : Active(v) /\ Active(w) => v = w
  /\ \A w \in Writers : Active(w) => PutInv(w)
  /\ IndexedIsStored

LEMMA SerialInit == RedisInit => SerialInv
<1> SUFFICES ASSUME RedisInit
             PROVE  SerialInv
  OBVIOUS
<1>1. EmptyRows \in RowSets
  BY DEF EmptyRows, RowSets
<1>2. writer \in [Writers -> WriterState]
  BY DEF RedisInit, WriterState
<1>3. reader \in [Readers -> ReaderState]
  BY <1>1 DEF RedisInit, ReaderState
<1>4. \A w \in Writers : ~Active(w)
  BY DEF RedisInit, Active
<1>5. QED
  BY <1>1, <1>2, <1>3, <1>4 DEF RedisInit, SerialInv, RedisTypeOK, IndexedIsStored

(* A step of a put_many leaves the readers well typed. *)
LEMMA DisturbType ==
  ASSUME RedisTypeOK, Disturb
  PROVE  reader' \in [Readers -> ReaderState]
<1>1. ASSUME NEW r \in Readers
      PROVE  [reader[r] EXCEPT !.quiet = FALSE] \in ReaderState
  BY DEF RedisTypeOK, ReaderState
<1>2. QED
  BY <1>1, Zenon DEF Disturb

(* The updates a read makes to its state keep its type. *)
LEMMA ReaderUpdate ==
  ASSUME NEW x \in ReaderState, NEW pc \in {"done", "get"}, NEW zones \in SUBSET Zones
  PROVE  [x EXCEPT !.pc = pc, !.left = zones, !.quiet = TRUE] \in ReaderState
BY DEF ReaderState

LEMMA ResultUpdate ==
  ASSUME NEW x \in ReaderState, NEW pc \in {"done", "get"}, NEW z \in Zones,
         NEW v \in Ages \cup {NoRow}
  PROVE  [x EXCEPT !.left = @ \ {z}, !.result[z] = v, !.pc = pc] \in ReaderState
BY DEF ReaderState, RowSets

(* A step of a read leaves the readers well typed. *)
LEMMA ReaderStep ==
  ASSUME RedisTypeOK, NEW r \in Readers, ReadIndex(r) \/ ReadRow(r)
  PROVE  reader' \in [Readers -> ReaderState]
<1>a. row \in RowSets /\ index \subseteq Zones /\ reader \in [Readers -> ReaderState]
  BY DEF RedisTypeOK
<1>1. CASE ReadIndex(r)
  <2> DEFINE next == IF index = {} THEN "done" ELSE "get"
             x == [reader[r] EXCEPT !.pc = next, !.left = index, !.quiet = TRUE]
  <2>1. reader' = [reader EXCEPT ![r] = x]
    BY <1>1 DEF ReadIndex
  <2>2. next \in {"done", "get"}
    OBVIOUS
  <2> HIDE DEF next
  <2>3. x \in ReaderState
    BY <1>a, <2>2, ReaderUpdate
  <2> HIDE DEF x
  <2>4. QED
    BY <1>a, <2>1, <2>3
<1>2. CASE ReadRow(r)
  <2>1. PICK z \in reader[r].left :
          reader' = [reader EXCEPT ![r].left = @ \ {z}, ![r].result[z] = row[z],
                                   ![r].pc = IF reader[r].left = {z} THEN "done" ELSE "get"]
    BY <1>2 DEF ReadRow
  <2> DEFINE next == IF reader[r].left = {z} THEN "done" ELSE "get"
             x == [reader[r] EXCEPT !.left = @ \ {z}, !.result[z] = row[z], !.pc = next]
  <2>2. reader' = [reader EXCEPT ![r] = x]
    BY <2>1
  <2>3. next \in {"done", "get"}
    OBVIOUS
  <2> HIDE DEF next
  <2>4. z \in Zones /\ row[z] \in Ages \cup {NoRow}
    BY <1>a, <2>1 DEF ReaderState, RowSets
  <2>5. x \in ReaderState
    BY <1>a, <2>3, <2>4, ResultUpdate
  <2> HIDE DEF x
  <2>6. QED
    BY <1>a, <2>2, <2>5
<1>3. QED
  BY <1>1, <1>2

(* What the start of a put_many does to the writers. *)
LEMMA StartFacts ==
  ASSUME writer \in [Writers -> WriterState], NEW w \in Writers, StartPut(w)
  PROVE  /\ writer' \in [Writers -> WriterState]
         /\ writer[w].pc = "idle" /\ UNCHANGED <<row, index, reader, whole>>
         /\ writer'[w].pc = "smembers" /\ writer'[w].batch \in Batches
         /\ writer'[w].left = ZonesOf(writer'[w].batch)
         /\ writer'[w].crossed = \E v \in Writers \ {w} : Active(v)
         /\ \A v \in Writers \ {w} :
              /\ Active(v)' = Active(v)
              /\ writer'[v].pc = writer[v].pc
              /\ writer'[v].batch = writer[v].batch
              /\ writer'[v].left = writer[v].left
              /\ writer'[v].zone = writer[v].zone
              /\ ~Active(v) => writer'[v] = writer[v]
              /\ Active(v) => writer'[v].crossed
<1> DEFINE meets == \E v \in Writers \ {w} : Active(v)
<1>1. PICK batch \in Batches :
        writer' = [v \in Writers |->
                     IF v = w
                     THEN [writer[w] EXCEPT !.pc = "smembers", !.batch = batch,
                                            !.left = ZonesOf(batch), !.crossed = meets]
                     ELSE IF Active(v) THEN [writer[v] EXCEPT !.crossed = TRUE]
                     ELSE writer[v]]
  BY DEF StartPut
<1> DEFINE x == [writer[w] EXCEPT !.pc = "smembers", !.batch = batch,
                                  !.left = ZonesOf(batch), !.crossed = meets]
           other(v) == [writer[v] EXCEPT !.crossed = TRUE]
<1>2. /\ writer' = [v \in Writers |->
                     IF v = w THEN x ELSE IF Active(v) THEN other(v) ELSE writer[v]]
      /\ meets \in BOOLEAN
  BY <1>1
<1> HIDE DEF meets
<1>3. ZonesOf(batch) \in SUBSET Zones
  BY DEF ZonesOf
<1>4. /\ x \in WriterState
      /\ x.pc = "smembers" /\ x.batch = batch /\ x.left = ZonesOf(batch) /\ x.crossed = meets
  BY <1>2, <1>3 DEF WriterState
<1>5. ASSUME NEW v \in Writers
      PROVE  /\ other(v) \in WriterState /\ other(v).crossed
             /\ other(v).pc = writer[v].pc /\ other(v).live = writer[v].live
             /\ other(v).batch = writer[v].batch /\ other(v).left = writer[v].left
             /\ other(v).zone = writer[v].zone
  BY DEF WriterState
<1> HIDE DEF x, other
<1>6. writer' \in [Writers -> WriterState]
  BY <1>2, <1>4, <1>5, Zenon
<1>7. writer'[w] = x
  BY <1>2
<1>8. ASSUME NEW v \in Writers \ {w}
      PROVE  writer'[v] = IF Active(v) THEN other(v) ELSE writer[v]
  BY <1>2
<1>9. ASSUME NEW v \in Writers \ {w}
      PROVE  /\ Active(v)' = Active(v)
             /\ writer'[v].pc = writer[v].pc
             /\ writer'[v].batch = writer[v].batch
             /\ writer'[v].left = writer[v].left
             /\ writer'[v].zone = writer[v].zone
             /\ ~Active(v) => writer'[v] = writer[v]
             /\ Active(v) => writer'[v].crossed
  <2>1. CASE Active(v)
    BY <2>1, <1>5, <1>8 DEF Active
  <2>2. CASE ~Active(v)
    BY <2>2, <1>8 DEF Active
  <2>3. QED
    BY <2>1, <2>2
<1>10. writer[w].pc = "idle" /\ UNCHANGED <<row, index, reader, whole>>
  BY DEF StartPut, At
<1>11. QED
  BY <1>4, <1>6, <1>7, <1>9, <1>10 DEF meets

LEMMA SerialStep ==
  ASSUME ~Overlap, SerialInv, [RedisNext]_redisVars
  PROVE  SerialInv'
<1>a. RedisTypeOK /\ (\A w \in Writers : writer[w] \in WriterState)
  BY DEF SerialInv, RedisTypeOK
<1>b. ASSUME NEW w \in Writers, NEW x \in WriterState, writer' = [writer EXCEPT ![w] = x],
             \A v \in Writers \ {w} : ~Active(v),
             row' \in RowSets, index' \subseteq Zones, reader' \in [Readers -> ReaderState],
             whole' \in Batches \cup {Nothing}, IndexedIsStored', Active(w)' => PutInv(w)'
      PROVE  SerialInv'
  <2>1. writer' \in [Writers -> WriterState]
    BY <1>a, <1>b DEF RedisTypeOK
  <2>2. \A v \in Writers \ {w} : ~Active(v)'
    BY <1>a, <1>b DEF RedisTypeOK, Active
  <2>3. RedisTypeOK'
    BY <1>b, <2>1 DEF RedisTypeOK
  <2>4. QED
    BY <1>b, <2>2, <2>3 DEF SerialInv
<1>c. ASSUME NEW w \in Writers, Active(w)
      PROVE  (\A v \in Writers \ {w} : ~Active(v)) /\ PutInv(w)
  BY <1>c DEF SerialInv
<1>d. row \in RowSets /\ index \subseteq Zones /\ reader \in [Readers -> ReaderState]
      /\ whole \in Batches \cup {Nothing} /\ IndexedIsStored
  BY <1>a DEF RedisTypeOK, SerialInv
<1>1. ASSUME NEW w \in Writers, StartPut(w)
      PROVE  SerialInv'
  <2>1. writer \in [Writers -> WriterState]
    BY <1>a DEF RedisTypeOK
  <2>2. /\ writer' \in [Writers -> WriterState] /\ UNCHANGED <<row, index, reader, whole>>
        /\ writer'[w].pc = "smembers" /\ writer'[w].batch \in Batches
        /\ writer'[w].left = ZonesOf(writer'[w].batch)
        /\ \A v \in Writers \ {w} : Active(v)' = Active(v)
    BY <1>1, <2>1, StartFacts
  <2>3. \A v \in Writers : ~Active(v)
    BY <1>1 DEF StartPut
  <2>4. PutInv(w)'
    BY <2>2 DEF PutInv
  <2>5. RedisTypeOK'
    BY <1>a, <2>2 DEF RedisTypeOK
  <2>6. IndexedIsStored'
    BY <1>d, <2>2 DEF IndexedIsStored
  <2>7. QED
    BY <2>2, <2>3, <2>4, <2>5, <2>6 DEF SerialInv
<1>2. ASSUME NEW w \in Writers, ListKeys(w)
      PROVE  SerialInv'
  <2> DEFINE x == [writer[w] EXCEPT !.pc = "delete", !.keys = index]
  <2>1. writer' = [writer EXCEPT ![w] = x]
    BY <1>2 DEF ListKeys
  <2>2. x \in WriterState
    BY <1>a, <1>d DEF WriterState
  <2>3. x.pc = "delete" /\ x.keys = index /\ x.batch = writer[w].batch /\ x.left = writer[w].left
    BY <1>a DEF WriterState
  <2> HIDE DEF x
  <2>4. Active(w)
    BY <1>2 DEF ListKeys, At, Active
  <2>5. writer'[w] = x
    BY <1>a, <2>1 DEF RedisTypeOK
  <2>6. UNCHANGED <<row, index, reader, whole>>
    BY <1>2 DEF ListKeys
  <2>7. PutInv(w)'
    BY <1>c, <2>3, <2>4, <2>5, <2>6 DEF PutInv
  <2>8. IndexedIsStored'
    BY <1>d, <2>6 DEF IndexedIsStored
  <2>9. QED
    BY <1>b, <1>c, <1>d, <2>1, <2>2, <2>4, <2>6, <2>7, <2>8
<1>3. ASSUME NEW w \in Writers, DeleteKeys(w)
      PROVE  SerialInv'
  <2> DEFINE x == [writer[w] EXCEPT !.pc = "set"]
  <2>1. writer' = [writer EXCEPT ![w] = x]
    BY <1>3 DEF DeleteKeys
  <2>2. x \in WriterState
    BY <1>a DEF WriterState
  <2>3. x.pc = "set" /\ x.batch = writer[w].batch /\ x.left = writer[w].left
    BY <1>a DEF WriterState
  <2> HIDE DEF x
  <2>4. Active(w)
    BY <1>3 DEF DeleteKeys, At, Active
  <2>5. writer'[w] = x
    BY <1>a, <2>1 DEF RedisTypeOK
  <2>6. index' = {} /\ whole' = Nothing
    BY <1>3 DEF DeleteKeys
  <2>7. row' \in RowSets
    BY <1>3, <1>d DEF DeleteKeys, RowSets
  <2>8. reader' \in [Readers -> ReaderState]
    BY <1>3, <1>a, DisturbType DEF DeleteKeys
  <2>9. PutInv(w)'
    BY <1>c, <2>3, <2>4, <2>5, <2>6 DEF PutInv
  <2>10. IndexedIsStored'
    BY <2>6 DEF IndexedIsStored
  <2>11. QED
    BY <1>b, <1>c, <2>1, <2>2, <2>4, <2>6, <2>7, <2>8, <2>9, <2>10
<1>4. ASSUME NEW w \in Writers, SetRow(w)
      PROVE  SerialInv'
  <2>1. PICK z \in writer[w].left :
          /\ row' = [row EXCEPT ![z] = writer[w].batch[z]]
          /\ writer' = [writer EXCEPT ![w].pc = "sadd", ![w].zone = z, ![w].left = @ \ {z}]
    BY <1>4 DEF SetRow
  <2> DEFINE x == [writer[w] EXCEPT !.pc = "sadd", !.zone = z, !.left = @ \ {z}]
  <2>2. writer' = [writer EXCEPT ![w] = x]
    BY <2>1
  <2>3. z \in Zones /\ writer[w].pc = "set"
    BY <1>4, <1>a, <2>1 DEF SetRow, At, WriterState
  <2>4. x \in WriterState
    BY <1>a, <2>3 DEF WriterState
  <2>5. /\ x.pc = "sadd" /\ x.zone = z /\ x.batch = writer[w].batch
        /\ x.left = writer[w].left \ {z}
    BY <1>a DEF WriterState
  <2> HIDE DEF x
  <2>6. Active(w)
    BY <1>4 DEF SetRow, At, Active
  <2>7. PutInv(w)
    BY <1>c, <2>6
  <2>8. writer'[w] = x
    BY <1>a, <2>2 DEF RedisTypeOK
  <2>9. UNCHANGED <<index, whole>>
    BY <1>4 DEF SetRow
  <2>10. writer[w].batch[z] \in Ages
    <3>1. writer[w].batch \in RowSets /\ z \in ZonesOf(writer[w].batch)
      BY <2>1, <2>7, RedisAssumption DEF PutInv
    <3>2. QED
      BY <2>3, <3>1 DEF RowSets, ZonesOf
  <2>11. /\ row' \in RowSets /\ row'[z] # NoRow
         /\ \A y \in Zones \ {z} : row'[y] = row[y]
    BY <1>d, <2>1, <2>3, <2>10, RedisAssumption DEF RowSets
  <2>12. reader' \in [Readers -> ReaderState]
    BY <1>4, <1>a, DisturbType DEF SetRow
  <2>13. z \notin index
    BY <2>1, <2>3, <2>7 DEF PutInv
  <2>14. PutInv(w)'
    BY <2>3, <2>5, <2>7, <2>8, <2>9, <2>11, <2>13 DEF PutInv
  <2>15. IndexedIsStored'
    BY <1>d, <2>9, <2>11 DEF IndexedIsStored
  <2>16. QED
    BY <1>b, <1>c, <1>d, <2>2, <2>4, <2>6, <2>9, <2>11, <2>12, <2>14, <2>15
<1>5. ASSUME NEW w \in Writers, AddToIndex(w)
      PROVE  SerialInv'
  <2> DEFINE next == IF writer[w].left = {} THEN "done" ELSE "set"
             x == [writer[w] EXCEPT !.pc = next, !.zone = Nothing]
  <2>1. writer' = [writer EXCEPT ![w] = x]
    BY <1>5 DEF AddToIndex
  <2>2. x \in WriterState
    BY <1>a DEF WriterState
  <2>3. x.pc = next /\ x.batch = writer[w].batch /\ x.left = writer[w].left
    BY <1>a DEF WriterState
  <2>4. next \in {"done", "set"}
    OBVIOUS
  <2> HIDE DEF x, next
  <2>5. Active(w) /\ writer[w].pc = "sadd"
    BY <1>5 DEF AddToIndex, At, Active
  <2>6. PutInv(w)
    BY <1>c, <2>5
  <2>7. writer'[w] = x
    BY <1>a, <2>1 DEF RedisTypeOK
  <2>8. row' = row /\ index' = index \cup {writer[w].zone}
    BY <1>5 DEF AddToIndex
  <2>9. whole' \in Batches \cup {Nothing}
    BY <1>5, <1>d, <2>6 DEF AddToIndex, PutInv
  <2>10. reader' \in [Readers -> ReaderState]
    BY <1>5, <1>a, DisturbType DEF AddToIndex
  <2>11. writer[w].zone \in Zones /\ row[writer[w].zone] # NoRow
    BY <2>5, <2>6 DEF PutInv
  <2>12. index' \subseteq Zones /\ IndexedIsStored'
    BY <1>d, <2>8, <2>11 DEF IndexedIsStored
  <2>13. PutInv(w)'
    BY <2>3, <2>4, <2>5, <2>6, <2>7, <2>8 DEF PutInv
  <2>14. QED
    BY <1>b, <1>c, <1>d, <2>1, <2>2, <2>5, <2>8, <2>9, <2>10, <2>12, <2>13
<1>6. ASSUME NEW w \in Writers, KillPut(w)
      PROVE  SerialInv'
  <2> DEFINE x == [writer[w] EXCEPT !.live = FALSE]
  <2>1. writer' = [writer EXCEPT ![w] = x]
    BY <1>6 DEF KillPut
  <2>2. x \in WriterState
    BY <1>a DEF WriterState
  <2>3. ~x.live
    BY <1>a DEF WriterState
  <2> HIDE DEF x
  <2>4. Active(w)
    BY <1>6 DEF KillPut
  <2>5. writer'[w] = x
    BY <1>a, <2>1 DEF RedisTypeOK
  <2>6. UNCHANGED <<row, index, reader, whole>>
    BY <1>6 DEF KillPut
  <2>7. ~Active(w)'
    BY <2>3, <2>5 DEF Active
  <2>8. IndexedIsStored'
    BY <1>d, <2>6 DEF IndexedIsStored
  <2>9. QED
    BY <1>b, <1>c, <1>d, <2>1, <2>2, <2>4, <2>6, <2>7, <2>8
<1>7. ASSUME NEW r \in Readers, ReadIndex(r) \/ ReadRow(r)
      PROVE  SerialInv'
  <2>1. UNCHANGED <<row, index, writer, whole>>
    BY <1>7 DEF ReadIndex, ReadRow
  <2>2. reader' \in [Readers -> ReaderState]
    BY <1>7, <1>a, ReaderStep
  <2>3. RedisTypeOK'
    BY <1>a, <2>1, <2>2 DEF RedisTypeOK
  <2>4. QED
    BY <2>1, <2>3 DEF SerialInv, Active, PutInv, IndexedIsStored
<1>8. CASE UNCHANGED redisVars
  <2>1. RedisTypeOK'
    BY <1>8, <1>a DEF redisVars, RedisTypeOK
  <2>2. QED
    BY <1>8, <2>1 DEF redisVars, SerialInv, Active, PutInv, IndexedIsStored
<1>9. QED
  BY <1>1, <1>2, <1>3, <1>4, <1>5, <1>6, <1>7, <1>8 DEF RedisNext, PutStep

(* RedisTypeOK and IndexedIsStored: zone_ids names no zone without a row. *)
THEOREM IndexIsBacked ==
  ASSUME ~Overlap
  PROVE  RedisSpec => [](RedisTypeOK /\ IndexedIsStored)
<1>1. SerialInv => RedisTypeOK /\ IndexedIsStored
  BY DEF SerialInv
<1>2. SerialInv /\ [RedisNext]_redisVars => SerialInv'
  BY SerialStep
<1>3. QED
  BY SerialInit, <1>1, <1>2, PTL DEF RedisSpec

-----------------------------------------------------------------------------
(* Every step of a put_many or a read withdraws all rows on offer, offers one
   more, or leaves them alone. *)
LEMMA RowsStep ==
  ASSUME ~Overlap, SerialInv, [RedisNext]_redisVars
  PROVE  [Rows!RowsNext]_Visible
<1>a. row \in RowSets /\ index \subseteq Zones /\ (\A w \in Writers : writer[w] \in WriterState)
  BY DEF SerialInv, RedisTypeOK
<1>1. ASSUME UNCHANGED <<row, index>>
      PROVE  Visible' = Visible
  BY <1>1 DEF Visible
<1>2. ASSUME NEW w \in Writers, DeleteKeys(w)
      PROVE  Rows!Withdraw
  BY <1>2 DEF DeleteKeys, Visible, Rows!Withdraw, Rows!NothingVisible
<1>3. ASSUME NEW w \in Writers, SetRow(w)
      PROVE  Visible' = Visible
  <2>1. PICK z \in writer[w].left : row' = [row EXCEPT ![z] = writer[w].batch[z]]
    BY <1>3 DEF SetRow
  <2>2. index' = index
    BY <1>3 DEF SetRow
  <2>3. PutInv(w) /\ writer[w].pc = "set"
    BY <1>3 DEF SetRow, At, Active, SerialInv
  <2>4. z \notin index
    BY <2>1, <2>3 DEF PutInv
  <2>5. \A y \in index : row'[y] = row[y]
    BY <1>a, <2>1, <2>4 DEF RowSets
  <2>6. QED
    BY <2>2, <2>5 DEF Visible
<1>4. ASSUME NEW w \in Writers, AddToIndex(w)
      PROVE  Rows!Offer
  <2> DEFINE z == writer[w].zone
  <2>1. PutInv(w) /\ writer[w].pc = "sadd"
    BY <1>4 DEF AddToIndex, At, Active, SerialInv
  <2>2. z \in Zones /\ z \notin index /\ row[z] # NoRow
    BY <2>1 DEF PutInv
  <2>3. row' = row /\ index' = index \cup {z}
    BY <1>4 DEF AddToIndex
  <2> HIDE DEF z
  <2>4. row[z] \in Ages
    BY <1>a, <2>2 DEF RowSets
  <2>5. Visible[z] = NoRow
    BY <2>2 DEF Visible
  <2>6. Visible' = [Visible EXCEPT ![z] = row[z]]
    BY <2>2, <2>3 DEF Visible
  <2>7. QED
    BY <2>2, <2>4, <2>5, <2>6 DEF Rows!Offer
<1>5. QED
  BY <1>1, <1>2, <1>3, <1>4
     DEF RedisNext, redisVars, PutStep, StartPut, ListKeys, KillPut, ReadIndex, ReadRow, Rows!RowsNext

(* ImplementsRows: the store, Redis command by Redis command, implements
   OnlineRows. *)
THEOREM RowsRefinement ==
  ASSUME ~Overlap
  PROVE  RedisSpec => ImplementsRows
<1>1. RedisInit => Rows!RowsInit
  BY DEF RedisInit, Rows!RowsInit, Rows!NothingVisible, Visible
<1>2. SerialInv /\ [RedisNext]_redisVars => SerialInv'
  BY SerialStep
<1>3. SerialInv /\ [RedisNext]_redisVars => [Rows!RowsNext]_Visible
  BY RowsStep
<1>4. QED
  BY SerialInit, <1>1, <1>2, <1>3, PTL DEF RedisSpec, ImplementsRows, Rows!RowsSpec

-----------------------------------------------------------------------------
(* Whether put_many calls overlap or not.  One that has met no other is alone
   as long as it is under way; once it has cleared the index, the index holds
   what it has put there, and the rows behind it are its own. *)
Alone(w) == \A v \in Writers \ {w} : ~Active(v)

Shaped(w) ==
  /\ writer[w].batch \in Batches
  /\ writer[w].left \subseteq ZonesOf(writer[w].batch)
  /\ writer[w].pc \in {"smembers", "delete"} => writer[w].left = ZonesOf(writer[w].batch)
  /\ writer[w].pc = "sadd" => writer[w].zone \in ZonesOf(writer[w].batch) \ writer[w].left

Puts(w) == Active(w) /\ writer[w].pc \in {"set", "sadd"}

Progress(w) ==
  /\ index = ZonesOf(writer[w].batch) \
               (writer[w].left \cup (IF writer[w].pc = "sadd" THEN {writer[w].zone} ELSE {}))
  /\ \A z \in index : row[z] = writer[w].batch[z]
  /\ writer[w].pc = "sadd" => row[writer[w].zone] = writer[w].batch[writer[w].zone]

LoneInv ==
  /\ RedisTypeOK
  /\ \A w \in Writers : Active(w) => Shaped(w)
  /\ \A w \in Writers : Active(w) /\ ~writer[w].crossed => Alone(w)
  /\ \A w \in Writers : Puts(w) /\ ~writer[w].crossed => Progress(w)
  /\ whole # Nothing => \A w \in Writers : ~Puts(w)
  /\ LonePutHeals

(* A read that nothing has disturbed has so far what is on offer. *)
ReadInv(r) ==
  /\ reader[r].pc = "idle" => reader[r].result = EmptyRows
  /\ reader[r].pc = "done" => reader[r].left = {}
  /\ reader[r].pc # "idle" /\ reader[r].quiet /\ whole # Nothing =>
       /\ reader[r].left \subseteq index
       /\ \A z \in Zones \ reader[r].left : reader[r].result[z] = Visible[z]

LEMMA LoneInit == RedisInit => LoneInv /\ \A r \in Readers : ReadInv(r)
<1> SUFFICES ASSUME RedisInit
             PROVE  LoneInv /\ \A r \in Readers : ReadInv(r)
  OBVIOUS
<1>1. RedisTypeOK
  BY SerialInit DEF SerialInv
<1>2. (\A w \in Writers : ~Active(w)) /\ whole = Nothing
  BY DEF RedisInit, Active
<1>3. \A r \in Readers : reader[r].pc = "idle" /\ reader[r].result = EmptyRows
  BY DEF RedisInit
<1>4. QED
  BY <1>1, <1>2, <1>3 DEF LoneInv, ReadInv, LonePutHeals, Puts

(* What a step of a put_many under way, or its death, does to the writers. *)
LEMMA PutFacts ==
  ASSUME RedisTypeOK, NEW w \in Writers,
         ListKeys(w) \/ DeleteKeys(w) \/ SetRow(w) \/ AddToIndex(w) \/ KillPut(w)
  PROVE  /\ Active(w)
         /\ writer'[w].crossed = writer[w].crossed
         /\ writer'[w].batch = writer[w].batch
         /\ \A v \in Writers \ {w} : writer'[v] = writer[v]
<1>1. writer \in [Writers -> WriterState]
  BY DEF RedisTypeOK
<1>2. CASE ListKeys(w)
  BY <1>1, <1>2 DEF ListKeys, At, Active, WriterState
<1>3. CASE DeleteKeys(w)
  BY <1>1, <1>3 DEF DeleteKeys, At, Active, WriterState
<1>4. CASE SetRow(w)
  <2>1. PICK z \in writer[w].left :
          writer' = [writer EXCEPT ![w] =
                       [writer[w] EXCEPT !.pc = "sadd", !.zone = z, !.left = @ \ {z}]]
    BY <1>4 DEF SetRow
  <2>2. writer[w] \in WriterState
    BY <1>1
  <2>3. LET x == [writer[w] EXCEPT !.pc = "sadd", !.zone = z, !.left = @ \ {z}]
        IN  x.crossed = writer[w].crossed /\ x.batch = writer[w].batch
    BY <2>2 DEF WriterState
  <2>4. Active(w)
    BY <1>4 DEF SetRow, At, Active
  <2>5. QED
    BY <1>1, <2>1, <2>3, <2>4
<1>5. CASE AddToIndex(w)
  BY <1>1, <1>5 DEF AddToIndex, At, Active, WriterState
<1>6. CASE KillPut(w)
  BY <1>1, <1>6 DEF KillPut, Active, WriterState
<1>7. QED
  BY <1>2, <1>3, <1>4, <1>5, <1>6

(* The states stay well typed through any overlap. *)
LEMMA TypeStep ==
  ASSUME LoneInv, [RedisNext]_redisVars
  PROVE  RedisTypeOK'
<1>a. /\ writer \in [Writers -> WriterState] /\ reader \in [Readers -> ReaderState]
      /\ row \in RowSets /\ index \subseteq Zones /\ whole \in Batches \cup {Nothing}
  BY DEF LoneInv, RedisTypeOK
<1>b. \A w \in Writers : Active(w) => Shaped(w)
  BY DEF LoneInv
<1>c. RedisTypeOK
  BY DEF LoneInv
<1>1. ASSUME NEW w \in Writers, StartPut(w)
      PROVE  RedisTypeOK'
  BY <1>a, <1>1, StartFacts DEF RedisTypeOK
<1>2. ASSUME NEW w \in Writers, ListKeys(w)
      PROVE  RedisTypeOK'
  <2>1. writer' \in [Writers -> WriterState]
    <3>1. writer[w] \in WriterState
      BY <1>a
    <3>2. [writer[w] EXCEPT !.pc = "delete", !.keys = index] \in WriterState
      BY <1>a, <3>1 DEF WriterState
    <3>3. writer' = [writer EXCEPT ![w] = [writer[w] EXCEPT !.pc = "delete", !.keys = index]]
      BY <1>2 DEF ListKeys
    <3>4. QED
      BY <1>a, <3>2, <3>3
  <2>2. QED
    BY <1>a, <1>2, <2>1 DEF ListKeys, RedisTypeOK
<1>3. ASSUME NEW w \in Writers, DeleteKeys(w)
      PROVE  RedisTypeOK'
  <2>1. writer' \in [Writers -> WriterState]
    BY <1>a, <1>3 DEF DeleteKeys, WriterState
  <2>2. reader' \in [Readers -> ReaderState]
    BY <1>c, <1>3, DisturbType DEF DeleteKeys
  <2>3. row' \in RowSets
    BY <1>a, <1>3 DEF DeleteKeys, RowSets
  <2>4. QED
    BY <1>3, <2>1, <2>2, <2>3 DEF DeleteKeys, RedisTypeOK
<1>4. ASSUME NEW w \in Writers, SetRow(w)
      PROVE  RedisTypeOK'
  <2>1. Shaped(w)
    BY <1>b, <1>4 DEF SetRow, At, Active
  <2>2. PICK z \in writer[w].left :
          /\ row' = [row EXCEPT ![z] = writer[w].batch[z]]
          /\ writer' = [writer EXCEPT ![w].pc = "sadd", ![w].zone = z, ![w].left = @ \ {z}]
    BY <1>4 DEF SetRow
  <2>3. z \in Zones
    BY <1>a, <2>2 DEF WriterState
  <2>4. writer' \in [Writers -> WriterState]
    BY <1>a, <2>2, <2>3 DEF WriterState
  <2>5. reader' \in [Readers -> ReaderState]
    BY <1>c, <1>4, DisturbType DEF SetRow
  <2>6. row' \in RowSets
    <3>1. writer[w].batch \in RowSets
      BY <2>1, RedisAssumption DEF Shaped
    <3>2. QED
      BY <1>a, <2>2, <2>3, <3>1 DEF RowSets
  <2>7. QED
    BY <1>a, <1>4, <2>4, <2>5, <2>6 DEF SetRow, RedisTypeOK
<1>5. ASSUME NEW w \in Writers, AddToIndex(w)
      PROVE  RedisTypeOK'
  <2>1. Shaped(w) /\ writer[w].pc = "sadd"
    BY <1>b, <1>5 DEF AddToIndex, At, Active
  <2>2. writer[w].zone \in Zones /\ writer[w].batch \in Batches
    BY <2>1 DEF Shaped, ZonesOf
  <2>3. PICK next \in {"done", "set"} :
          writer' = [writer EXCEPT ![w].pc = next, ![w].zone = Nothing]
    BY <1>5 DEF AddToIndex
  <2>4. writer' \in [Writers -> WriterState]
    <3>1. writer[w] \in WriterState
      BY <1>a
    <3>2. [writer[w] EXCEPT !.pc = next, !.zone = Nothing] \in WriterState
      BY <3>1 DEF WriterState
    <3>3. writer' = [writer EXCEPT ![w] = [writer[w] EXCEPT !.pc = next, !.zone = Nothing]]
      BY <2>3
    <3>4. QED
      BY <1>a, <3>2, <3>3
  <2>5. reader' \in [Readers -> ReaderState]
    BY <1>c, <1>5, DisturbType DEF AddToIndex
  <2>6. index' \subseteq Zones /\ row' = row /\ whole' \in Batches \cup {Nothing}
    BY <1>a, <1>5, <2>2 DEF AddToIndex
  <2>7. QED
    BY <1>a, <2>4, <2>5, <2>6 DEF RedisTypeOK
<1>6. ASSUME NEW w \in Writers, KillPut(w)
      PROVE  RedisTypeOK'
  <2>1. writer' \in [Writers -> WriterState]
    BY <1>a, <1>6 DEF KillPut, WriterState
  <2>2. QED
    BY <1>a, <1>6, <2>1 DEF KillPut, RedisTypeOK
<1>7. ASSUME NEW r \in Readers, ReadIndex(r) \/ ReadRow(r)
      PROVE  RedisTypeOK'
  BY <1>7, <1>c, ReaderStep DEF RedisTypeOK, ReadIndex, ReadRow
<1>8. CASE UNCHANGED redisVars
  BY <1>8, <1>a DEF redisVars, RedisTypeOK
<1>9. QED
  BY <1>1, <1>2, <1>3, <1>4, <1>5, <1>6, <1>7, <1>8 DEF RedisNext, PutStep

(* What the lone put_many keeps, step by step; a step of any put_many under
   way finds that every lone one is itself. *)
LEMMA LoneStep ==
  ASSUME LoneInv, [RedisNext]_redisVars
  PROVE  LoneInv'
<1>a. /\ writer \in [Writers -> WriterState] /\ row \in RowSets /\ index \subseteq Zones
      /\ RedisTypeOK /\ RedisTypeOK'
  BY TypeStep DEF LoneInv, RedisTypeOK
<1>b. ASSUME NEW w \in Writers,
             ListKeys(w) \/ DeleteKeys(w) \/ SetRow(w) \/ AddToIndex(w) \/ KillPut(w)
      PROVE  /\ Active(w) /\ Shaped(w)
             /\ \A v \in Writers \ {w} : writer'[v] = writer[v]
             /\ \A v \in Writers \ {w} : Active(v)' = Active(v) /\ Puts(v)' = Puts(v)
             /\ \A v \in Writers \ {w} : Active(v) => writer[v].crossed /\ Shaped(v)'
             /\ ~writer[w].crossed => \A v \in Writers \ {w} : ~Active(v)
             /\ writer'[w].crossed = writer[w].crossed
             /\ writer'[w].batch = writer[w].batch
  <2>1. Active(w) /\ \A v \in Writers \ {w} : writer'[v] = writer[v]
    BY <1>a, <1>b, PutFacts
  <2>2. writer'[w].crossed = writer[w].crossed /\ writer'[w].batch = writer[w].batch
    BY <1>a, <1>b, PutFacts
  <2>3. \A v \in Writers \ {w} : Active(v) => writer[v].crossed
    BY <2>1 DEF LoneInv, Alone
  <2>4. \A v \in Writers : Active(v) => Shaped(v)
    BY DEF LoneInv
  <2>5. \A v \in Writers \ {w} :
          /\ Active(v)' = Active(v) /\ Puts(v)' = Puts(v)
          /\ Active(v) => Shaped(v)'
    BY <2>1, <2>4 DEF Active, Puts, Shaped
  <2>6. ~writer[w].crossed => \A v \in Writers \ {w} : ~Active(v)
    BY <2>1 DEF LoneInv, Alone
  <2>7. QED
    BY <2>1, <2>2, <2>3, <2>4, <2>5, <2>6
<1>c. ASSUME NEW w \in Writers,
             ListKeys(w) \/ DeleteKeys(w) \/ SetRow(w) \/ AddToIndex(w) \/ KillPut(w),
             Active(w)' => Shaped(w)',
             Puts(w)' /\ ~writer[w].crossed => Progress(w)',
             whole' # Nothing => \A v \in Writers : ~Puts(v)',
             LonePutHeals'
      PROVE  LoneInv'
  <2>1. \A v \in Writers : Active(v)' => Shaped(v)'
    BY <1>b, <1>c
  <2>2. \A v \in Writers : Active(v)' /\ ~writer'[v].crossed => v = w
    BY <1>b, <1>c
  <2>3. ~writer[w].crossed => \A v \in Writers \ {w} : ~Active(v)'
    BY <1>b, <1>c
  <2>4. \A v \in Writers : Active(v)' /\ ~writer'[v].crossed => Alone(v)'
    BY <1>b, <1>c, <2>2, <2>3 DEF Alone
  <2>5. \A v \in Writers : Puts(v)' /\ ~writer'[v].crossed => Progress(v)'
    <3>1. writer'[w].crossed = writer[w].crossed
      BY <1>b, <1>c
    <3>2. \A v \in Writers : Puts(v)' => Active(v)'
      BY DEF Puts
    <3>3. QED
      BY <1>c, <2>2, <3>1, <3>2
  <2>6. QED
    BY <1>a, <1>c, <2>1, <2>4, <2>5 DEF LoneInv
<1>d. ASSUME UNCHANGED <<row, index, whole>>
      PROVE  LonePutHeals'
  BY <1>d DEF LoneInv, LonePutHeals, Visible, IndexedIsStored
<1>1. ASSUME NEW w \in Writers, StartPut(w)
      PROVE  LoneInv'
  <2>1. /\ writer[w].pc = "idle" /\ UNCHANGED <<row, index, reader, whole>>
        /\ writer'[w].pc = "smembers" /\ writer'[w].batch \in Batches
        /\ writer'[w].left = ZonesOf(writer'[w].batch)
        /\ writer'[w].crossed = \E v \in Writers \ {w} : Active(v)
    BY <1>1, <1>a, StartFacts
  <2>2. \A v \in Writers \ {w} :
          /\ Active(v)' = Active(v)
          /\ writer'[v].pc = writer[v].pc
          /\ writer'[v].batch = writer[v].batch
          /\ writer'[v].left = writer[v].left
          /\ writer'[v].zone = writer[v].zone
          /\ Active(v) => writer'[v].crossed
    BY <1>1, <1>a, StartFacts
  <2>3. \A v \in Writers : Active(v)' => Shaped(v)'
    <3>1. Shaped(w)'
      BY <2>1 DEF Shaped
    <3>2. \A v \in Writers \ {w} : Active(v)' => Shaped(v)'
      BY <2>2 DEF LoneInv, Shaped
    <3>3. QED
      BY <3>1, <3>2
  <2>4. \A v \in Writers : Active(v)' /\ ~writer'[v].crossed => v = w
    BY <2>2
  <2>5. ~writer'[w].crossed => \A v \in Writers \ {w} : ~Active(v)'
    BY <2>1, <2>2
  <2>6. \A v \in Writers : Active(v)' /\ ~writer'[v].crossed => Alone(v)'
    BY <2>4, <2>5 DEF Alone
  <2>7. \A v \in Writers : Puts(v)' => Puts(v) /\ v # w
    BY <2>1, <2>2 DEF Puts
  <2>8. whole' # Nothing => \A v \in Writers : ~Puts(v)'
    BY <2>1, <2>7 DEF LoneInv
  <2>9. \A v \in Writers : Puts(v)' /\ ~writer'[v].crossed => Progress(v)'
    BY <2>4, <2>7 DEF Puts
  <2>10. LonePutHeals'
    BY <1>d, <2>1
  <2>11. QED
    BY <1>a, <2>3, <2>6, <2>8, <2>9, <2>10 DEF LoneInv
<1>2. ASSUME NEW w \in Writers, ListKeys(w)
      PROVE  LoneInv'
  <2>1. UNCHANGED <<row, index, whole>>
    BY <1>2 DEF ListKeys
  <2>2. writer'[w].pc = "delete" /\ writer'[w].left = writer[w].left
    BY <1>2, <1>a DEF ListKeys, WriterState
  <2>3. Shaped(w)' /\ ~Puts(w)'
    BY <1>2, <1>b, <2>2 DEF Shaped, Puts, ListKeys, At
  <2>4. whole' # Nothing => \A v \in Writers : ~Puts(v)'
    BY <1>2, <1>b, <2>1, <2>3 DEF LoneInv
  <2>5. LonePutHeals'
    BY <1>d, <2>1
  <2>6. QED
    BY <1>2, <1>c, <2>3, <2>4, <2>5
<1>3. ASSUME NEW w \in Writers, DeleteKeys(w)
      PROVE  LoneInv'
  <2>1. index' = {} /\ whole' = Nothing
    BY <1>3 DEF DeleteKeys
  <2>2. writer'[w].pc = "set" /\ writer'[w].left = writer[w].left
    BY <1>3, <1>a DEF DeleteKeys, WriterState
  <2>3. Shaped(w)'
    BY <1>3, <1>b, <2>2 DEF Shaped
  <2>4. writer[w].left = ZonesOf(writer[w].batch)
    BY <1>3, <1>b DEF DeleteKeys, At, Shaped
  <2>5. Progress(w)'
    BY <1>3, <1>b, <2>1, <2>2, <2>4 DEF Progress
  <2>6. LonePutHeals'
    BY <2>1 DEF LonePutHeals
  <2>7. QED
    BY <1>3, <1>c, <2>1, <2>3, <2>5, <2>6
<1>4. ASSUME NEW w \in Writers, SetRow(w)
      PROVE  LoneInv'
  <2>1. PICK z \in writer[w].left :
          /\ row' = [row EXCEPT ![z] = writer[w].batch[z]]
          /\ writer' = [writer EXCEPT ![w] =
                          [writer[w] EXCEPT !.pc = "sadd", !.zone = z, !.left = @ \ {z}]]
    BY <1>4 DEF SetRow
  <2>2. writer[w] \in WriterState /\ UNCHANGED <<index, whole>> /\ writer[w].pc = "set"
    BY <1>4, <1>a DEF SetRow, At
  <2>3. /\ writer'[w].pc = "sadd" /\ writer'[w].zone = z
        /\ writer'[w].left = writer[w].left \ {z}
    BY <1>a, <2>1, <2>2 DEF WriterState
  <2>4. Shaped(w) /\ Puts(w)
    BY <1>4, <1>b, <2>2 DEF Puts
  <2>5. Shaped(w)'
    BY <1>4, <1>b, <2>1, <2>3, <2>4 DEF Shaped
  <2>6. whole' = Nothing
    BY <2>2, <2>4 DEF LoneInv
  <2>7. ~writer[w].crossed => Progress(w)'
    <3>1. SUFFICES ASSUME ~writer[w].crossed
                   PROVE  Progress(w)'
      OBVIOUS
    <3>2. Progress(w)
      BY <2>4, <3>1 DEF LoneInv
    <3>3. z \in Zones /\ z \notin index
      BY <2>1, <2>2, <3>2 DEF Progress, WriterState
    <3>4. row'[z] = writer[w].batch[z] /\ \A y \in Zones \ {z} : row'[y] = row[y]
      BY <1>a, <2>1, <3>3 DEF RowSets
    <3>5. index' = ZonesOf(writer'[w].batch) \ (writer'[w].left \cup {z})
      BY <1>4, <1>b, <2>1, <2>2, <2>3, <3>2 DEF Progress
    <3>6. \A y \in index' : row'[y] = writer'[w].batch[y]
      BY <1>4, <1>a, <1>b, <2>2, <3>2, <3>3, <3>4 DEF Progress
    <3>7. QED
      BY <1>4, <1>b, <2>3, <3>4, <3>5, <3>6 DEF Progress
  <2>8. LonePutHeals'
    BY <2>6 DEF LonePutHeals
  <2>9. QED
    BY <1>4, <1>c, <2>5, <2>6, <2>7, <2>8
<1>5. ASSUME NEW w \in Writers, AddToIndex(w)
      PROVE  LoneInv'
  <2> DEFINE next == IF writer[w].left = {} THEN "done" ELSE "set"
  <2>1. writer' = [writer EXCEPT ![w] = [writer[w] EXCEPT !.pc = next, !.zone = Nothing]]
    BY <1>5 DEF AddToIndex
  <2>2. /\ writer[w] \in WriterState /\ row' = row /\ writer[w].pc = "sadd"
        /\ index' = index \cup {writer[w].zone}
        /\ whole' = IF writer[w].left = {} /\ ~writer[w].crossed THEN writer[w].batch ELSE whole
    BY <1>5, <1>a DEF AddToIndex, At
  <2>3. writer'[w].pc = next /\ writer'[w].left = writer[w].left
    BY <1>a, <2>1, <2>2 DEF WriterState
  <2>4. Shaped(w) /\ Puts(w)
    BY <1>5, <1>b, <2>2 DEF Puts
  <2>5. next \in {"done", "set"} /\ (next = "done" <=> writer[w].left = {})
    OBVIOUS
  <2> HIDE DEF next
  <2>6. Shaped(w)'
    BY <1>5, <1>b, <2>3, <2>4, <2>5 DEF Shaped
  <2>7. whole = Nothing
    BY <2>4 DEF LoneInv
  <2>8. ~writer[w].crossed =>
          /\ index' = ZonesOf(writer[w].batch) \ writer[w].left
          /\ \A z \in index' : row'[z] = writer[w].batch[z]
    <3>1. SUFFICES ASSUME ~writer[w].crossed
                   PROVE  /\ index' = ZonesOf(writer[w].batch) \ writer[w].left
                          /\ \A z \in index' : row'[z] = writer[w].batch[z]
      OBVIOUS
    <3>2. Progress(w)
      BY <2>4, <3>1 DEF LoneInv
    <3>3. QED
      BY <2>2, <2>4, <3>2 DEF Progress, Shaped
  <2>9. ~writer[w].crossed => Progress(w)'
    BY <1>5, <1>b, <2>3, <2>5, <2>8 DEF Progress
  <2>10. CASE whole' = Nothing
    <3>1. LonePutHeals'
      BY <2>10 DEF LonePutHeals
    <3>2. QED
      BY <1>5, <1>c, <2>6, <2>9, <2>10, <3>1
  <2>11. CASE whole' # Nothing
    <3>1. writer[w].left = {} /\ ~writer[w].crossed /\ whole' = writer[w].batch
      BY <2>2, <2>7, <2>11
    <3>2. \A v \in Writers : ~Puts(v)'
      <4>1. ~Puts(w)'
        BY <2>3, <2>5, <3>1 DEF Puts
      <4>2. \A v \in Writers \ {w} : ~Puts(v)'
        BY <1>5, <1>b, <3>1 DEF Puts
      <4>3. QED
        BY <4>1, <4>2
    <3>3. writer[w].batch \in RowSets
      BY <2>4, RedisAssumption DEF Shaped
    <3>4. index' = ZonesOf(writer[w].batch) /\ \A z \in index' : row'[z] = writer[w].batch[z]
      BY <2>8, <3>1
    <3>5. Visible' = whole'
      BY <3>1, <3>3, <3>4 DEF Visible, RowSets, ZonesOf
    <3>6. IndexedIsStored'
      BY <3>4 DEF IndexedIsStored, ZonesOf
    <3>7. QED
      BY <1>5, <1>c, <2>6, <2>9, <3>2, <3>5, <3>6 DEF LonePutHeals
  <2>12. QED
    BY <2>10, <2>11
<1>6. ASSUME NEW w \in Writers, KillPut(w)
      PROVE  LoneInv'
  <2>1. UNCHANGED <<row, index, whole>>
    BY <1>6 DEF KillPut
  <2>2. ~Active(w)' /\ ~Puts(w)'
    BY <1>6, <1>a DEF KillPut, Active, Puts, WriterState
  <2>3. whole' # Nothing => \A v \in Writers : ~Puts(v)'
    BY <1>6, <1>b, <2>1, <2>2 DEF LoneInv
  <2>4. LonePutHeals'
    BY <1>d, <2>1
  <2>5. QED
    BY <1>6, <1>c, <2>2, <2>3, <2>4
<1>7. CASE UNCHANGED <<row, index, writer, whole>>
  BY <1>7, <1>a, <1>d DEF LoneInv, Active, Shaped, Alone, Puts, Progress
<1>8. QED
  BY <1>1, <1>2, <1>3, <1>4, <1>5, <1>6, <1>7
     DEF RedisNext, PutStep, ReadIndex, ReadRow, redisVars

(* A read meets the lone put_many's rows as they are on offer: what disturbs
   it marks it, and the rest changes no row. *)
LEMMA ReadStep ==
  ASSUME LoneInv, \A r \in Readers : ReadInv(r), [RedisNext]_redisVars
  PROVE  \A r \in Readers : ReadInv(r)'
<1>a. reader \in [Readers -> ReaderState] /\ row \in RowSets /\ index \subseteq Zones
  BY DEF LoneInv, RedisTypeOK
<1>1. SUFFICES ASSUME NEW r \in Readers
               PROVE  ReadInv(r)'
  OBVIOUS
<1>b. reader[r] \in ReaderState /\ ReadInv(r)
  BY <1>a
<1>2. CASE Disturb
  BY <1>2, <1>b DEF Disturb, ReadInv, ReaderState
<1>3. CASE reader'[r] = reader[r] /\ UNCHANGED <<row, index, whole>>
  BY <1>3, <1>b DEF ReadInv, Visible
<1>4. CASE ReadIndex(r)
  <2> DEFINE next == IF index = {} THEN "done" ELSE "get"
  <2>1. reader' = [reader EXCEPT ![r] = [reader[r] EXCEPT !.pc = next, !.left = index, !.quiet = TRUE]]
    BY <1>4 DEF ReadIndex
  <2>2. UNCHANGED <<row, index, whole>> /\ reader[r].pc = "idle"
    BY <1>4 DEF ReadIndex
  <2>3. next \in {"done", "get"} /\ (next = "done" => index = {})
    OBVIOUS
  <2> HIDE DEF next
  <2>4. /\ reader'[r].pc = next /\ reader'[r].left = index
        /\ reader'[r].result = reader[r].result
    BY <1>a, <1>b, <2>1 DEF ReaderState
  <2>5. reader[r].result = EmptyRows
    BY <1>b, <2>2 DEF ReadInv
  <2>6. \A z \in Zones \ index : EmptyRows[z] = Visible[z]
    BY DEF EmptyRows, Visible
  <2>7. Visible' = Visible
    BY <2>2 DEF Visible
  <2>8. QED
    BY <2>2, <2>3, <2>4, <2>5, <2>6, <2>7 DEF ReadInv
<1>5. CASE ReadRow(r)
  <2>1. PICK z \in reader[r].left :
          reader' = [reader EXCEPT ![r] =
                       [reader[r] EXCEPT !.left = @ \ {z}, !.result[z] = row[z],
                                         !.pc = IF reader[r].left = {z} THEN "done" ELSE "get"]]
    BY <1>5 DEF ReadRow
  <2> DEFINE next == IF reader[r].left = {z} THEN "done" ELSE "get"
  <2>2. /\ next \in {"done", "get"}
        /\ next = "done" => reader[r].left \ {z} = {}
    OBVIOUS
  <2>3. reader' = [reader EXCEPT ![r] =
                     [reader[r] EXCEPT !.left = @ \ {z}, !.result[z] = row[z], !.pc = next]]
    BY <2>1
  <2> HIDE DEF next
  <2>4. UNCHANGED <<row, index, whole>> /\ reader[r].pc = "get"
    BY <1>5 DEF ReadRow
  <2>5. z \in Zones
    BY <1>b, <2>1 DEF ReaderState
  <2>6. /\ reader'[r].pc = next /\ reader'[r].left = reader[r].left \ {z}
        /\ reader'[r].quiet = reader[r].quiet
        /\ reader'[r].result = [reader[r].result EXCEPT ![z] = row[z]]
    BY <1>a, <1>b, <2>3 DEF ReaderState
  <2>7. /\ reader'[r].result[z] = row[z]
        /\ \A y \in Zones \ {z} : reader'[r].result[y] = reader[r].result[y]
    BY <1>b, <2>5, <2>6 DEF ReaderState, RowSets
  <2>8. Visible' = Visible
    BY <2>4 DEF Visible
  <2>9. ASSUME reader[r].quiet, whole # Nothing
        PROVE  /\ reader'[r].left \subseteq index
               /\ \A y \in Zones \ reader'[r].left : reader'[r].result[y] = Visible[y]
    <3>1. /\ reader[r].left \subseteq index
          /\ \A y \in Zones \ reader[r].left : reader[r].result[y] = Visible[y]
      BY <1>b, <2>4, <2>9 DEF ReadInv
    <3>2. row[z] = Visible[z]
      BY <2>1, <2>5, <3>1 DEF Visible
    <3>3. QED
      BY <2>6, <2>7, <3>1, <3>2
  <2>10. QED
    BY <2>2, <2>4, <2>6, <2>8, <2>9 DEF ReadInv
<1>6. ASSUME NEW q \in Readers \ {r}, ReadIndex(q) \/ ReadRow(q)
      PROVE  reader'[r] = reader[r] /\ UNCHANGED <<row, index, whole>>
  <2>1. CASE ReadIndex(q)
    BY <1>a, <2>1 DEF ReadIndex
  <2>2. CASE ReadRow(q)
    BY <1>a, <2>2 DEF ReadRow
  <2>3. QED
    BY <1>6, <2>1, <2>2
<1>7. QED
  BY <1>2, <1>3, <1>4, <1>5, <1>6
     DEF RedisNext, redisVars, PutStep, StartPut, ListKeys, DeleteKeys, SetRow, AddToIndex, KillPut

(* LonePutHeals: a put_many that met no other leaves exactly its rows, whatever
   overlapping or killed ones left before it. *)
THEOREM LonePutIsWhole == RedisSpec => []LonePutHeals
<1>1. RedisInit => LoneInv
  BY LoneInit
<1>2. LoneInv /\ [RedisNext]_redisVars => LoneInv'
  BY LoneStep
<1>3. LoneInv => LonePutHeals
  BY DEF LoneInv
<1>4. QED
  BY <1>1, <1>2, <1>3, PTL DEF RedisSpec

(* QuietReadIsWhole: an undisturbed read returns those rows. *)
THEOREM QuietReadsAreWhole == RedisSpec => []QuietReadIsWhole
<1> DEFINE Inv == LoneInv /\ \A r \in Readers : ReadInv(r)
<1>1. RedisInit => Inv
  BY LoneInit
<1>2. Inv /\ [RedisNext]_redisVars => Inv'
  BY LoneStep, ReadStep
<1>3. Inv => QuietReadIsWhole
  <2> SUFFICES ASSUME Inv, NEW r \in Readers,
                      reader[r].pc = "done", reader[r].quiet, whole # Nothing
               PROVE  reader[r].result = whole
    BY DEF QuietReadIsWhole
  <2>1. Visible = whole
    BY DEF LoneInv, LonePutHeals
  <2>2. \A z \in Zones : reader[r].result[z] = Visible[z]
    BY DEF ReadInv
  <2>3. reader[r].result \in [Zones -> Ages \cup {NoRow}]
    BY DEF LoneInv, RedisTypeOK, ReaderState, RowSets
  <2>4. QED
    BY <2>1, <2>2, <2>3 DEF Visible
<1> HIDE DEF Inv
<1>4. QED
  BY <1>1, <1>2, <1>3, PTL DEF RedisSpec

-----------------------------------------------------------------------------
(* A zone is being set, or was when its put_many was killed. *)
SetBy(w, z) == writer[w].pc = "sadd" /\ writer[w].zone = z

(* Only the put_many that stands between a row and its index entry explains an
   orphan, and none stops explaining it without indexing the row: that the
   keys a put_many deletes are those of the whole index (SerialInv) is what
   keeps it from making orphans of the rows it clears. *)
LEMMA OrphanStep ==
  ASSUME ~Overlap, SerialInv, OrphanHasCause, [RedisNext]_redisVars
  PROVE  OrphanHasCause'
<1>a. /\ row \in RowSets /\ index \subseteq Zones
      /\ writer \in [Writers -> WriterState]
      /\ \A w \in Writers : writer[w] \in WriterState
  BY DEF SerialInv, RedisTypeOK
<1>b. \A z \in Zones : row[z] # NoRow /\ z \notin index => \E w \in Writers : SetBy(w, z)
  BY DEF OrphanHasCause, SetBy
<1>c. SUFFICES ASSUME NEW z \in Zones, row'[z] # NoRow, z \notin index'
               PROVE  \E w \in Writers : SetBy(w, z)'
  BY DEF OrphanHasCause, SetBy
<1>d. ASSUME NEW w \in Writers, \A v \in Writers \ {w} : SetBy(v, z) => SetBy(v, z)',
             SetBy(w, z) => SetBy(w, z)', row[z] # NoRow, z \notin index
      PROVE  \E v \in Writers : SetBy(v, z)'
  BY <1>b, <1>d
<1>1. ASSUME NEW w \in Writers, StartPut(w)
      PROVE  \E v \in Writers : SetBy(v, z)'
  <2>1. /\ writer[w].pc = "idle" /\ UNCHANGED <<row, index>>
        /\ \A v \in Writers \ {w} : /\ writer'[v].pc = writer[v].pc
                                    /\ writer'[v].zone = writer[v].zone
    BY <1>a, <1>1, StartFacts
  <2>2. ~SetBy(w, z) /\ \A v \in Writers \ {w} : SetBy(v, z) => SetBy(v, z)'
    BY <2>1 DEF SetBy
  <2>3. QED
    BY <1>c, <1>d, <2>1, <2>2
<1>2. ASSUME NEW w \in Writers, ListKeys(w)
      PROVE  \E v \in Writers : SetBy(v, z)'
  <2>1. /\ writer[w].pc = "smembers" /\ UNCHANGED <<row, index>>
        /\ \A v \in Writers \ {w} : writer'[v] = writer[v]
    BY <1>a, <1>2 DEF ListKeys, At
  <2>2. ~SetBy(w, z) /\ \A v \in Writers \ {w} : SetBy(v, z) => SetBy(v, z)'
    BY <2>1 DEF SetBy
  <2>3. QED
    BY <1>c, <1>d, <2>1, <2>2
<1>3. ASSUME NEW w \in Writers, DeleteKeys(w)
      PROVE  \E v \in Writers : SetBy(v, z)'
  <2>1. /\ writer[w].pc = "delete" /\ writer[w].live
        /\ row' = [y \in Zones |-> IF y \in writer[w].keys THEN NoRow ELSE row[y]]
        /\ \A v \in Writers \ {w} : writer'[v] = writer[v]
    BY <1>a, <1>3 DEF DeleteKeys, At
  <2>2. writer[w].keys = index
    BY <2>1 DEF SerialInv, Active, PutInv
  <2>3. row[z] # NoRow /\ z \notin index
    BY <1>c, <2>1, <2>2
  <2>4. ~SetBy(w, z) /\ \A v \in Writers \ {w} : SetBy(v, z) => SetBy(v, z)'
    BY <2>1 DEF SetBy
  <2>5. QED
    BY <1>d, <2>3, <2>4
<1>4. ASSUME NEW w \in Writers, SetRow(w)
      PROVE  \E v \in Writers : SetBy(v, z)'
  <2>1. PICK y \in writer[w].left :
          /\ row' = [row EXCEPT ![y] = writer[w].batch[y]]
          /\ writer' = [writer EXCEPT ![w].pc = "sadd", ![w].zone = y, ![w].left = @ \ {y}]
    BY <1>4 DEF SetRow
  <2>2. writer'[w].pc = "sadd" /\ writer'[w].zone = y
    BY <1>a, <2>1 DEF WriterState
  <2>3. CASE y = z
    BY <2>2, <2>3 DEF SetBy
  <2>4. CASE y # z
    <3>1. row[z] # NoRow /\ z \notin index
      BY <1>4, <1>a, <1>c, <2>1, <2>4 DEF SetRow, RowSets
    <3>2. writer[w].pc = "set" /\ \A v \in Writers \ {w} : writer'[v] = writer[v]
      BY <1>4, <1>a, <2>1 DEF SetRow, At
    <3>3. ~SetBy(w, z) /\ \A v \in Writers \ {w} : SetBy(v, z) => SetBy(v, z)'
      BY <3>2 DEF SetBy
    <3>4. QED
      BY <1>d, <3>1, <3>3
  <2>5. QED
    BY <2>3, <2>4
<1>5. ASSUME NEW w \in Writers, AddToIndex(w)
      PROVE  \E v \in Writers : SetBy(v, z)'
  <2>1. /\ row' = row /\ index' = index \cup {writer[w].zone}
        /\ \A v \in Writers \ {w} : writer'[v] = writer[v]
    BY <1>a, <1>5 DEF AddToIndex
  <2>2. ~SetBy(w, z) /\ \A v \in Writers \ {w} : SetBy(v, z) => SetBy(v, z)'
    BY <1>c, <2>1 DEF SetBy
  <2>3. QED
    BY <1>c, <1>d, <2>1, <2>2
<1>6. ASSUME NEW w \in Writers, KillPut(w)
      PROVE  \E v \in Writers : SetBy(v, z)'
  <2>1. /\ UNCHANGED <<row, index>>
        /\ \A v \in Writers \ {w} : writer'[v] = writer[v]
        /\ writer'[w].pc = writer[w].pc /\ writer'[w].zone = writer[w].zone
    BY <1>a, <1>6 DEF KillPut, WriterState
  <2>2. \A v \in Writers : SetBy(v, z) => SetBy(v, z)'
    BY <2>1 DEF SetBy
  <2>3. QED
    BY <1>b, <1>c, <2>1, <2>2
<1>7. CASE UNCHANGED <<row, index, writer>>
  BY <1>7, <1>b, <1>c DEF SetBy
<1>8. QED
  BY <1>1, <1>2, <1>3, <1>4, <1>5, <1>6, <1>7
     DEF RedisNext, PutStep, ReadIndex, ReadRow, redisVars

(* OrphanHasCause: while put_many calls do not overlap, every row that get
   finds and zone_ids does not name was left by a put_many that stands, or was
   killed, between its SET and its SADD. *)
THEOREM OrphansHaveCauses ==
  ASSUME ~Overlap
  PROVE  RedisSpec => []OrphanHasCause
<1>1. RedisInit => OrphanHasCause
  BY DEF RedisInit, EmptyRows, OrphanHasCause
<1>2. SerialInv /\ [RedisNext]_redisVars => SerialInv'
  BY SerialStep
<1>3. SerialInv /\ OrphanHasCause /\ [RedisNext]_redisVars => OrphanHasCause'
  BY OrphanStep
<1>4. QED
  BY SerialInit, <1>1, <1>2, <1>3, PTL DEF RedisSpec
=============================================================================
