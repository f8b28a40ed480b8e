---------------------------- MODULE GuruProbeProofs ----------------------------
(***************************************************************************)
(* Proofs about the probe and the disconnect of the three products, for    *)
(* any number of interfaces, whichever of them cannot be created, and      *)
(* whatever their users and the device do meanwhile.                       *)
(***************************************************************************)
EXTENDS GuruProbe, SequenceTheorems, TLAPS

Steps  == {"guru", "can", "lin", "can_msg", "lin_msg", "boot", "volt"}
Phases == {"probing", "bound", "failed", "leaving", "gone"}

-----------------------------------------------------------------------------
(* Where a step stands in the order of its product: what is not in it is   *)
(* never reached by the probe, and always passed by the disconnect.        *)

Place(p, step) ==
  CASE p = "canguru" -> IF step = "guru" THEN 1 ELSE IF step = "can" THEN 2
                        ELSE IF step = "can_msg" THEN 3
                        ELSE IF step = "boot" THEN 4 ELSE 9
    [] p = "linguru" -> IF step = "guru" THEN 1 ELSE IF step = "lin" THEN 2
                        ELSE IF step = "volt" THEN 3
                        ELSE IF step = "lin_msg" THEN 4 ELSE 9
    [] p = "mbus"    -> IF step = "guru" THEN 1 ELSE IF step = "can_msg" THEN 2
                        ELSE IF step = "can" THEN 3 ELSE IF step = "lin" THEN 4
                        ELSE IF step = "lin_msg" THEN 5 ELSE 9

UndoPlace(p, step) ==
  CASE p = "canguru" -> IF step = "boot" THEN 1 ELSE IF step = "can" THEN 2 ELSE 0
    [] p = "linguru" -> IF step = "lin" THEN 1 ELSE IF step = "volt" THEN 2 ELSE 0
    [] p = "mbus"    -> IF step = "can" THEN 1 ELSE IF step = "lin" THEN 2 ELSE 0

Last(p) == IF p = "mbus" THEN 5 ELSE 4

(* The order of the MultiBus, of which each bus contributes its part.      *)
LEMMA MultiBusOrder ==
  /\ Len(mbus_dev_init) = 5
  /\ mbus_dev_init[1] = "guru" /\ mbus_dev_init[2] = "can_msg"
  /\ mbus_dev_init[3] = "can" /\ mbus_dev_init[4] = "lin"
  /\ mbus_dev_init[5] = "lin_msg"
<1> DEFINE g == <<"guru">>
           c == <<"can_msg", "can">>
           l == <<"lin", "lin_msg">>
           gc == g \o c
<1>1. /\ g \in Seq(Steps) /\ c \in Seq(Steps) /\ l \in Seq(Steps)
      /\ Len(g) = 1 /\ Len(c) = 2 /\ Len(l) = 2
      /\ g[1] = "guru" /\ c[1] = "can_msg" /\ c[2] = "can"
      /\ l[1] = "lin" /\ l[2] = "lin_msg"
  BY DEF Steps
<1>2. mbus_dev_init = gc \o l
  BY DEF mbus_dev_init, mbus_dev_init_can, mbus_dev_init_lin
<1> HIDE DEF g, c, l
<1>3. /\ gc \in Seq(Steps) /\ Len(gc) = 3
      /\ \A i \in 1 .. 3 : gc[i] = IF i <= 1 THEN g[i] ELSE c[i - 1]
  <2>1. /\ gc \in Seq(Steps) /\ Len(gc) = Len(g) + Len(c)
        /\ \A i \in 1 .. Len(g) + Len(c) :
             gc[i] = IF i <= Len(g) THEN g[i] ELSE c[i - Len(g)]
    BY <1>1, ConcatProperties
  <2> QED
    BY <1>1, <2>1
<1>4. gc[1] = "guru" /\ gc[2] = "can_msg" /\ gc[3] = "can"
  BY <1>1, <1>3
<1> HIDE DEF gc
<1>5. /\ Len(gc \o l) = 5
      /\ \A i \in 1 .. 5 : (gc \o l)[i] = IF i <= 3 THEN gc[i] ELSE l[i - 3]
  <2>1. /\ Len(gc \o l) = Len(gc) + Len(l)
        /\ \A i \in 1 .. Len(gc) + Len(l) :
             (gc \o l)[i] = IF i <= Len(gc) THEN gc[i] ELSE l[i - Len(gc)]
    BY <1>1, <1>3, ConcatProperties
  <2> QED
    BY <1>1, <1>3, <2>1
<1> QED
  BY <1>1, <1>2, <1>4, <1>5

(* The two orders are those of the code.                                   *)
LEMMA OrderPlaces ==
  ASSUME NEW p \in Products
  PROVE  /\ Len(Order(p)) = Last(p)
         /\ \A i \in 1 .. Last(p), step \in Steps :
              Order(p)[i] = step <=> i = Place(p, step)
<1>1. CASE p = "canguru"
  <2>1. /\ Len(Order(p)) = 4 /\ Last(p) = 4
        /\ Order(p)[1] = "guru" /\ Order(p)[2] = "can"
        /\ Order(p)[3] = "can_msg" /\ Order(p)[4] = "boot"
    BY <1>1 DEF Order, canguru_dev_init, Last
  <2>2. \A step \in Steps : /\ "guru" = step <=> 1 = Place(p, step)
                            /\ "can" = step <=> 2 = Place(p, step)
                            /\ "can_msg" = step <=> 3 = Place(p, step)
                            /\ "boot" = step <=> 4 = Place(p, step)
    BY <1>1 DEF Place, Steps
  <2>3. \A i \in 1 .. 4 : i \in {1, 2, 3, 4}
    OBVIOUS
  <2> QED
    BY <2>1, <2>2, <2>3
<1>2. CASE p = "linguru"
  <2>1. /\ Len(Order(p)) = 4 /\ Last(p) = 4
        /\ Order(p)[1] = "guru" /\ Order(p)[2] = "lin"
        /\ Order(p)[3] = "volt" /\ Order(p)[4] = "lin_msg"
    BY <1>2 DEF Order, linguru_dev_init, Last
  <2>2. \A step \in Steps : /\ "guru" = step <=> 1 = Place(p, step)
                            /\ "lin" = step <=> 2 = Place(p, step)
                            /\ "volt" = step <=> 3 = Place(p, step)
                            /\ "lin_msg" = step <=> 4 = Place(p, step)
    BY <1>2 DEF Place, Steps
  <2>3. \A i \in 1 .. 4 : i \in {1, 2, 3, 4}
    OBVIOUS
  <2> QED
    BY <2>1, <2>2, <2>3
<1>3. CASE p = "mbus"
  <2>1. /\ Len(Order(p)) = 5 /\ Last(p) = 5
        /\ Order(p)[1] = "guru" /\ Order(p)[2] = "can_msg"
        /\ Order(p)[3] = "can" /\ Order(p)[4] = "lin"
        /\ Order(p)[5] = "lin_msg"
    BY <1>3, MultiBusOrder DEF Order, Last
  <2>2. \A step \in Steps : /\ "guru" = step <=> 1 = Place(p, step)
                            /\ "can_msg" = step <=> 2 = Place(p, step)
                            /\ "can" = step <=> 3 = Place(p, step)
                            /\ "lin" = step <=> 4 = Place(p, step)
                            /\ "lin_msg" = step <=> 5 = Place(p, step)
    BY <1>3 DEF Place, Steps
  <2>3. \A i \in 1 .. 5 : i \in {1, 2, 3, 4, 5}
    OBVIOUS
  <2> QED
    BY <2>1, <2>2, <2>3
<1> QED
  BY <1>1, <1>2, <1>3 DEF Products

(* Where each step stands in the order of the disconnect.                  *)
LEMMA UndoPlaces ==
  ASSUME NEW p \in Products
  PROVE  /\ Len(Undo(p)) = 2
         /\ \A i \in 1 .. 2, step \in Steps :
              Undo(p)[i] = step <=> i = UndoPlace(p, step)
<1>1. CASE p = "canguru"
  BY <1>1 DEF Undo, canguru_dev_deinit, UndoPlace, Steps
<1>2. CASE p = "linguru"
  BY <1>2 DEF Undo, linguru_dev_deinit, UndoPlace, Steps
<1>3. CASE p = "mbus"
  BY <1>3 DEF Undo, mbus_dev_deinit, UndoPlace, Steps
<1> QED
  BY <1>1, <1>2, <1>3 DEF Products

(* The places, and which interfaces a product has.                         *)
LEMMA PlaceFacts ==
  ASSUME NEW p \in Products
  PROVE  /\ Last(p) \in {4, 5}
         /\ \A step \in Steps : /\ Place(p, step) \in Nat \ {0}
                                /\ Place(p, step) # 9 => Place(p, step) <= Last(p)
                                /\ UndoPlace(p, step) \in 0 .. 2
         /\ Place(p, "guru") = 1 /\ Place(p, "can") >= 2 /\ Place(p, "lin") >= 2
         /\ Place(p, "boot") # 9 => UndoPlace(p, "boot") # 0
         /\ Place(p, "volt") # 9 => UndoPlace(p, "volt") # 0
  BY DEF Products, Steps, Place, UndoPlace, Last

(* Where the steps of an interface stand in the order of its product.      *)
LEMMA NetFacts ==
  ASSUME NEW p \in Products, NEW net \in Nets(p)
  PROVE  /\ net[1] \in Buses /\ net[2] \in Nat /\ net[2] < Count(p, net[1])
         /\ net = <<net[1], net[2]>>
         /\ net[1] \in Steps /\ MsgOf(net[1]) \in Steps
         /\ Place(p, net[1]) <= Last(p) /\ Place(p, MsgOf(net[1])) <= Last(p)
         /\ UndoPlace(p, net[1]) # 0
         /\ Place(p, MsgOf(net[1])) > Place(p, net[1])
            \/ (p = "mbus" /\ net[1] = "can")
<1>1. \A bus \in Buses : Count(p, bus) \in Nat
  BY ProbeAssumption DEF Count, Products, Buses
<1>2. PICK bus \in Buses : net \in {bus} \X (0 .. Count(p, bus) - 1)
  BY DEF Nets
<1>3. /\ net[1] = bus /\ net = <<net[1], net[2]>>
      /\ net[2] \in 0 .. Count(p, bus) - 1
  BY <1>2
<1>4. net[2] \in Nat /\ net[2] < Count(p, bus) /\ Count(p, bus) # 0
  BY <1>1, <1>3
<1>5. \/ p = "canguru" /\ bus = "can"
      \/ p = "linguru" /\ bus = "lin"
      \/ p = "mbus"
  BY <1>4 DEF Count, Products, Buses
<1>6. /\ bus \in Steps /\ MsgOf(bus) \in Steps
      /\ Place(p, bus) <= Last(p) /\ Place(p, MsgOf(bus)) <= Last(p)
      /\ UndoPlace(p, bus) # 0
      /\ Place(p, MsgOf(bus)) > Place(p, bus)
         \/ (p = "mbus" /\ bus = "can")
  BY <1>5 DEF Buses, MsgOf, Steps, Place, UndoPlace, Last
<1> QED
  BY <1>3, <1>4, <1>6

-----------------------------------------------------------------------------
(* The inductive invariant.                                                *)

Typed ==
  /\ product \in Products /\ phase \in Phases
  /\ pos \in Nat \ {0} /\ idx \in Nat
  /\ registered \subseteq Nets(product) /\ opened \subseteq registered
  /\ boot \in BOOLEAN /\ volt \in BOOLEAN

Probed == phase \in {"probing", "failed", "bound"}

(* The loop has come to this interface.                                    *)
Created(net) == \/ pos > Place(product, net[1])
                \/ pos = Place(product, net[1]) /\ net[2] < idx

(* Everything before the step under way has been done, nothing after it.   *)
Built ==
  Probed =>
    /\ \A net \in registered : Created(net)
    /\ \A net \in Nets(product) : Created(net) => net \in registered \cup failures
    /\ \A bus \in Buses : pos > Place(product, MsgOf(bus)) => bus \in list
    /\ \A bus \in handlers : bus \in Buses /\ pos > Place(product, MsgOf(bus))
    /\ boot => pos > Place(product, "boot")
    /\ volt => pos > Place(product, "volt")

(* Where the probe ends.                                                   *)
Ended ==
  /\ phase = "probing" => pos <= Last(product) + 1
  /\ phase = "bound" => pos = Last(product) + 1
  /\ phase = "failed" =>
       \E step \in {"guru", "boot", "volt"} : pos = Place(product, step) /\ pos # 9

(* The loop of the disconnect has still to come to this interface.         *)
Left(net) == \/ pos < UndoPlace(product, net[1])
             \/ pos = UndoPlace(product, net[1]) /\ net[2] >= idx

(* What is left to be undone, is there unless it never was.                *)
Undone ==
  phase = "leaving" =>
    /\ \A net \in registered : Left(net)
    /\ \A net \in Nets(product) : Left(net) => net \in registered \cup failures
    /\ boot => pos <= UndoPlace(product, "boot")
    /\ volt => pos <= UndoPlace(product, "volt")

IInv == Typed /\ Built /\ Ended /\ Undone /\ UnsetOnlySo /\ NothingLeft

(* Nothing is built.                                                       *)
LEMMA InitHolds == Init => IInv
<1> SUFFICES ASSUME Init PROVE IInv
  OBVIOUS
<1>1. /\ product \in Products /\ phase = "probing" /\ pos = 1 /\ idx = 0
      /\ registered = {} /\ opened = {} /\ list = {} /\ handlers = {}
      /\ boot = FALSE /\ volt = FALSE /\ kernel = "ok"
  BY DEF Init
<1>2. \A bus \in Buses : bus \in Steps /\ MsgOf(bus) \in Steps
  BY DEF Buses, Steps, MsgOf
<1>3. Typed /\ UnsetOnlySo /\ NothingLeft
  <2>1. boot \in BOOLEAN /\ volt \in BOOLEAN
    BY <1>1
  <2>2. phase \in Phases /\ pos \in Nat \ {0} /\ idx \in Nat
    BY <1>1 DEF Phases
  <2>3. Typed
    BY <1>1, <2>1, <2>2 DEF Typed
  <2>4. UnsetOnlySo /\ NothingLeft
    BY <1>1 DEF UnsetOnlySo, NothingLeft
  <2> QED
    BY <2>3, <2>4
<1>4. Built
  <2>1. \A bus \in Buses : ~(pos > Place(product, MsgOf(bus)))
    BY <1>1, <1>2, PlaceFacts
  <2>2. \A net \in Nets(product) : ~Created(net)
    <3> SUFFICES ASSUME NEW net \in Nets(product) PROVE ~Created(net)
      OBVIOUS
    <3>1. net[2] \in Nat /\ net[1] \in Buses
      BY <1>1, NetFacts
    <3>2. Place(product, net[1]) \in Nat /\ Place(product, net[1]) >= 2
      BY <1>1, <1>2, <3>1, PlaceFacts DEF Buses
    <3> QED
      BY <1>1, <3>1, <3>2 DEF Created
  <2> QED
    BY <1>1, <2>1, <2>2 DEF Built
<1>5. Ended /\ Undone
  BY <1>1 DEF Ended, Undone, Last
<1> QED
  BY <1>3, <1>4, <1>5 DEF IInv

-----------------------------------------------------------------------------
(* What the provers need of every state.                                   *)

(* The step under way, by its place.                                       *)
LEMMA AtPlace ==
  ASSUME Typed, NEW step \in Steps, At(step)
  PROVE  /\ phase = "leaving" => pos = UndoPlace(product, step) /\ pos <= 2
         /\ phase # "leaving" => pos = Place(product, step) /\ pos <= Last(product)
<1>1. product \in Products /\ pos \in Nat \ {0} /\ Last(product) \in {4, 5}
  BY PlaceFacts DEF Typed
<1>2. CASE phase = "leaving"
  <2>1. pos <= Len(Undo(product)) /\ Undo(product)[pos] = step
    BY <1>2 DEF At
  <2> QED
    BY <1>1, <1>2, <2>1, UndoPlaces
<1>3. CASE phase # "leaving"
  <2>1. pos <= Len(Order(product)) /\ Order(product)[pos] = step
    BY <1>3 DEF At
  <2> QED
    BY <1>1, <1>3, <2>1, OrderPlaces
<1> QED
  BY <1>2, <1>3

(* Two steps have different places.                                        *)
LEMMA Apart ==
  ASSUME NEW p \in Products, NEW s \in Steps, NEW t \in Steps, s # t
  PROVE  /\ Place(p, s) # 9 => Place(p, s) # Place(p, t)
         /\ UndoPlace(p, s) # 0 => UndoPlace(p, s) # UndoPlace(p, t)
  BY DEF Products, Steps, Place, UndoPlace

(* A step is under way, in this place.                                     *)
Here(step) == pos = Place(product, step) /\ pos <= Last(product)

(* It is done: what it has to do with the interfaces and the messages.     *)
Done(step) ==
  /\ phase = "probing" /\ kernel = "ok" /\ kernel' = "ok"
  /\ Here(step) /\ Advance /\ UNCHANGED <<product, phase, netVars>>
  /\ \A net \in Nets(product) : net[1] = step => net[2] < idx
  /\ \A bus \in Buses : bus \in list \/ MsgOf(bus) = step => bus \in list'
  /\ \A bus \in handlers' : bus \in handlers \/ (bus \in Buses /\ MsgOf(bus) = step)
  /\ boot' \in BOOLEAN /\ (boot' => boot \/ step = "boot")
  /\ volt' \in BOOLEAN /\ (volt' => volt \/ step = "volt")

(* A step of the probe that does what it should.                           *)
LEMMA Advanced ==
  ASSUME IInv, NEW step \in Steps, Done(step)
  PROVE  IInv'
<1>0. /\ phase = "probing" /\ kernel = "ok" /\ kernel' = "ok"
      /\ Here(step) /\ Advance /\ UNCHANGED <<product, phase, netVars>>
      /\ \A net \in Nets(product) : net[1] = step => net[2] < idx
      /\ \A bus \in Buses : bus \in list \/ MsgOf(bus) = step => bus \in list'
      /\ \A bus \in handlers' : bus \in handlers \/ (bus \in Buses /\ MsgOf(bus) = step)
      /\ boot' \in BOOLEAN /\ (boot' => boot \/ step = "boot")
      /\ volt' \in BOOLEAN /\ (volt' => volt \/ step = "volt")
  BY DEF Done
<1>1. /\ product \in Products /\ pos \in Nat \ {0} /\ idx \in Nat
      /\ pos' = pos + 1 /\ idx' = 0
      /\ product' = product /\ phase' = phase /\ registered' = registered
      /\ opened' = opened /\ failures' = failures
  BY <1>0 DEF IInv, Typed, Advance, netVars
<1>2. pos = Place(product, step) /\ pos <= Last(product) /\ Last(product) \in {4, 5}
  BY <1>0, <1>1, PlaceFacts DEF Here
<1>3. Typed'
  BY <1>0, <1>1 DEF IInv, Typed
<1>4. Ended' /\ Undone' /\ UnsetOnlySo' /\ NothingLeft'
  BY <1>0, <1>1, <1>2 DEF Ended, Undone, UnsetOnlySo, NothingLeft
<1>5. \A s \in Steps : /\ Place(product, s) \in Nat \ {0}
                       /\ pos' > Place(product, s) <=>
                            pos > Place(product, s) \/ s = step
                       /\ pos = Place(product, s) => s = step
  <2> SUFFICES ASSUME NEW s \in Steps
               PROVE  /\ Place(product, s) \in Nat \ {0}
                      /\ pos' > Place(product, s) <=>
                           pos > Place(product, s) \/ s = step
                      /\ pos = Place(product, s) => s = step
    OBVIOUS
  <2>1. Place(product, s) \in Nat \ {0}
    BY <1>1, PlaceFacts
  <2>2. s # step => Place(product, s) # pos
    BY <1>1, <1>2, Apart
  <2> QED
    BY <1>1, <1>2, <2>1, <2>2
<1>6. \A bus \in Buses : MsgOf(bus) \in Steps
  BY DEF Buses, MsgOf, Steps
<1>7. \A net \in Nets(product) : Created(net)' <=> Created(net)
  <2> SUFFICES ASSUME NEW net \in Nets(product)
               PROVE  Created(net)' <=> Created(net)
    OBVIOUS
  <2>1. net[1] \in Steps /\ net[2] \in Nat
    BY <1>1, NetFacts
  <2>2. Created(net)' <=> pos' > Place(product, net[1])
    BY <1>1, <2>1 DEF Created
  <2>3. Created(net) <=> pos > Place(product, net[1]) \/ net[1] = step
    BY <1>0, <1>2, <1>5, <2>1 DEF Created
  <2> QED
    BY <1>5, <2>1, <2>2, <2>3
<1>8. Built'
  <2>1. Built /\ Probed /\ registered \subseteq Nets(product)
    BY <1>0 DEF IInv, Probed, Typed
  <2>2. \A net \in registered' : Created(net)'
    BY <1>1, <1>7, <2>1 DEF Built
  <2>3. \A net \in Nets(product) :
          Created(net)' => net \in registered' \cup failures'
    BY <1>1, <1>7, <2>1 DEF Built
  <2>4. \A bus \in Buses : pos' > Place(product, MsgOf(bus)) => bus \in list'
    BY <1>0, <1>5, <1>6, <2>1 DEF Built
  <2>5. \A bus \in handlers' : bus \in Buses /\ pos' > Place(product, MsgOf(bus))
    BY <1>0, <1>5, <1>6, <2>1 DEF Built
  <2>6. /\ boot' => pos' > Place(product, "boot")
        /\ volt' => pos' > Place(product, "volt")
    <3>1. "boot" \in Steps /\ "volt" \in Steps
      BY DEF Steps
    <3> QED
      BY <1>0, <1>5, <2>1, <3>1 DEF Built
  <2> QED
    BY <1>1, <2>2, <2>3, <2>4, <2>5, <2>6 DEF Built
<1> QED
  BY <1>3, <1>4, <1>8 DEF IInv

(* The probe fails in a step that may fail.                                *)
LEMMA Failed ==
  ASSUME IInv, phase = "probing", NEW step \in {"guru", "boot", "volt"}, Here(step),
         Fail, UNCHANGED <<product, netVars, msgVars, restVars, kernel>>,
         kernel = "ok"
  PROVE  IInv'
<1>1. /\ phase' = "failed" /\ UNCHANGED <<pos, idx, product, registered, opened,
                    failures, talking, list, handlers, boot, volt, kernel>>
  BY DEF Fail, netVars, msgVars, restVars
<1>2. pos = Place(product, step) /\ pos <= 5
  BY PlaceFacts DEF Here, IInv, Typed
<1>3. Typed' /\ Undone' /\ UnsetOnlySo' /\ NothingLeft'
  BY <1>1 DEF IInv, Typed, Phases, Undone, UnsetOnlySo, NothingLeft
<1>4. Ended'
  BY <1>1, <1>2 DEF IInv, Typed, Ended
<1>5. Built'
  BY <1>1 DEF IInv, Built, Probed, Created
<1> QED
  BY <1>3, <1>4, <1>5 DEF IInv
-----------------------------------------------------------------------------
(* The steps of the probe.                                                 *)

(* guru_dev_init is the first of them.                                     *)
LEMMA GuruStep ==
  ASSUME IInv, guru_dev_init
  PROVE  IInv'
<1>1. /\ kernel = "ok" /\ phase = "probing" /\ At("guru")
      /\ UNCHANGED <<product, netVars, msgVars, restVars, kernel>>
      /\ (Advance /\ UNCHANGED phase) \/ Fail
  BY DEF guru_dev_init
<1>2. "guru" \in Steps /\ Here("guru")
  BY <1>1, AtPlace DEF IInv, Steps, Here
<1>3. CASE Fail
  BY <1>1, <1>2, <1>3, Failed
<1>4. CASE Advance /\ UNCHANGED phase
  <2>1. UNCHANGED <<list, handlers, boot, volt>>
    BY <1>1 DEF msgVars, restVars
  <2>2. \A net \in Nets(product) : net[1] # "guru"
    BY NetFacts DEF IInv, Typed, Buses
  <2>3. \A bus \in Buses : MsgOf(bus) # "guru"
    BY DEF Buses, MsgOf
  <2>4. boot' \in BOOLEAN /\ volt' \in BOOLEAN
    BY <1>4, <2>1 DEF IInv, Typed
  <2>5. Done("guru")
    BY <1>1, <1>2, <1>4, <2>1, <2>2, <2>3, <2>4 DEF Done
  <2> QED
    BY <1>2, <2>5, Advanced
<1> QED
  BY <1>1, <1>3, <1>4

(* The boot device, which may be missing in the end.                       *)
LEMMA BootStep ==
  ASSUME IInv, guru_boot_create
  PROVE  IInv'
<1>1. /\ kernel = "ok" /\ phase = "probing" /\ At("boot")
      /\ UNCHANGED <<product, netVars, msgVars, volt, kernel>>
      /\ (boot' = TRUE /\ Advance /\ UNCHANGED phase) \/ (Fail /\ UNCHANGED boot)
  BY DEF guru_boot_create
<1>2. "boot" \in Steps /\ Here("boot")
  BY <1>1, AtPlace DEF IInv, Steps, Here
<1>3. CASE Fail /\ UNCHANGED boot
  BY <1>1, <1>2, <1>3, Failed DEF restVars
<1>4. CASE boot' = TRUE /\ Advance /\ UNCHANGED phase
  <2>1. UNCHANGED <<list, handlers, volt>>
    BY <1>1 DEF msgVars
  <2>2. \A net \in Nets(product) : net[1] # "boot"
    BY NetFacts DEF IInv, Typed, Buses
  <2>3. \A bus \in Buses : MsgOf(bus) # "boot"
    BY DEF Buses, MsgOf
  <2>4. boot' \in BOOLEAN /\ volt' \in BOOLEAN
    BY <1>4, <2>1 DEF IInv, Typed
  <2>5. Done("boot")
    BY <1>1, <1>2, <1>4, <2>1, <2>2, <2>3, <2>4 DEF Done
  <2> QED
    BY <1>2, <2>5, Advanced
<1> QED
  BY <1>1, <1>3, <1>4

(* The voltage sensor, which may be missing too.                           *)
LEMMA VoltStep ==
  ASSUME IInv, linguru_volt_create
  PROVE  IInv'
<1>1. /\ kernel = "ok" /\ phase = "probing" /\ At("volt")
      /\ UNCHANGED <<product, netVars, msgVars, boot, kernel>>
      /\ (volt' = TRUE /\ Advance /\ UNCHANGED phase) \/ (Fail /\ UNCHANGED volt)
  BY DEF linguru_volt_create
<1>2. "volt" \in Steps /\ Here("volt")
  BY <1>1, AtPlace DEF IInv, Steps, Here
<1>3. CASE Fail /\ UNCHANGED volt
  BY <1>1, <1>2, <1>3, Failed DEF restVars
<1>4. CASE volt' = TRUE /\ Advance /\ UNCHANGED phase
  <2>1. UNCHANGED <<list, handlers, boot>>
    BY <1>1 DEF msgVars
  <2>2. \A net \in Nets(product) : net[1] # "volt"
    BY NetFacts DEF IInv, Typed, Buses
  <2>3. \A bus \in Buses : MsgOf(bus) # "volt"
    BY DEF Buses, MsgOf
  <2>4. boot' \in BOOLEAN /\ volt' \in BOOLEAN
    BY <1>4, <2>1 DEF IInv, Typed
  <2>5. Done("volt")
    BY <1>1, <1>2, <1>4, <2>1, <2>2, <2>3, <2>4 DEF Done
  <2> QED
    BY <1>2, <2>5, Advanced
<1> QED
  BY <1>1, <1>3, <1>4

(* The loop is through: it has come to every interface of the bus.         *)
LEMMA CreatedAllStep ==
  ASSUME IInv, NEW bus \in Buses, nets_created(bus)
  PROVE  IInv'
<1>1. /\ kernel = "ok" /\ phase = "probing" /\ At(bus)
      /\ idx = Count(product, bus) /\ Advance
      /\ UNCHANGED <<product, phase, netVars, list, handlers, boot, volt, kernel>>
  BY DEF nets_created, msgVars, restVars
<1>2. bus \in Steps /\ Here(bus)
  BY <1>1, AtPlace DEF IInv, Steps, Here, Buses
<1>3. \A net \in Nets(product) : net[1] = bus => net[2] < idx
  BY <1>1, NetFacts DEF IInv, Typed
<1>4. \A b \in Buses : MsgOf(b) # bus
  BY DEF Buses, MsgOf
<1>5. boot' \in BOOLEAN /\ volt' \in BOOLEAN
  BY <1>1 DEF IInv, Typed
<1>6. Done(bus)
  BY <1>1, <1>2, <1>3, <1>4, <1>5 DEF Done
<1> QED
  BY <1>2, <1>6, Advanced

(* The handlers are added once the list of their bus is there.             *)
LEMMA AddMsgsStep ==
  ASSUME IInv, NEW bus \in Buses, add_msgs(bus)
  PROVE  IInv'
<1>1. /\ kernel = "ok" /\ phase = "probing" /\ At(MsgOf(bus))
      /\ bus \in list /\ handlers' = handlers \cup {bus} /\ Advance
      /\ UNCHANGED <<product, phase, netVars, list, boot, volt, kernel>>
  BY DEF add_msgs, restVars
<1>2. MsgOf(bus) \in Steps /\ MsgOf(bus) \notin Buses
  BY DEF Steps, MsgOf, Buses
<1>3. Here(MsgOf(bus))
  BY <1>1, <1>2, AtPlace DEF IInv, Here
<1>4. \A net \in Nets(product) : net[1] # MsgOf(bus)
  BY <1>2, NetFacts DEF IInv, Typed
<1>5. \A b \in Buses : MsgOf(b) = MsgOf(bus) => b = bus
  BY DEF Buses, MsgOf
<1>6. boot' \in BOOLEAN /\ volt' \in BOOLEAN
  BY <1>1 DEF IInv, Typed
<1>7. Done(MsgOf(bus))
  BY <1>1, <1>3, <1>4, <1>5, <1>6 DEF Done
<1> QED
  BY <1>2, <1>7, Advanced

(* The head of the message list of a bus is initialised.                   *)
LEMMA InitListStep ==
  ASSUME IInv, NEW bus \in Buses, init_list(bus)
  PROVE  IInv'
<1>1. /\ kernel = "ok" /\ phase = "probing" /\ list' = list \cup {bus}
      /\ UNCHANGED <<product, phase, pos, idx, registered, opened, talking,
                     failures, handlers, boot, volt, kernel>>
  BY DEF init_list, netVars, restVars
<1>2. Typed' /\ Ended' /\ Undone' /\ NothingLeft'
  BY <1>1 DEF IInv, Typed, Ended, Undone, NothingLeft
<1>3. UnsetOnlySo'
  BY <1>1 DEF UnsetOnlySo
<1>4. Built'
  BY <1>1 DEF IInv, Built, Probed, Created
<1> QED
  BY <1>2, <1>3, <1>4 DEF IInv

(* One turn of the loop, whether the interface can be created or not.      *)
LEMMA NetCreateStep ==
  ASSUME IInv, NEW bus \in Buses, net_create(bus)
  PROVE  IInv'
<1> DEFINE new == <<bus, idx>>
<1>1. /\ kernel = "ok" /\ phase = "probing" /\ At(bus) /\ idx < Count(product, bus)
      /\ idx' = idx + 1
      /\ UNCHANGED <<product, phase, pos, opened, list, handlers, boot, volt, kernel>>
      /\ \/ registered' = registered \cup {new} /\ UNCHANGED failures
         \/ failures' = failures \cup {new} /\ UNCHANGED registered
  BY DEF net_create, msgVars, restVars
<1>2. bus \in Steps /\ pos = Place(product, bus) /\ pos <= Last(product)
  BY <1>1, AtPlace DEF IInv, Steps, Buses
<1>3. /\ product \in Products /\ idx \in Nat /\ pos \in Nat \ {0} /\ Last(product) \in {4, 5}
      /\ Built /\ Probed
  BY <1>1, PlaceFacts DEF IInv, Typed, Probed
<1>4. new \in Nets(product) /\ new[1] = bus /\ new[2] = idx
  <2>1. Count(product, bus) \in Nat
    BY <1>3, ProbeAssumption DEF Count, Products, Buses
  <2>2. idx \in 0 .. Count(product, bus) - 1
    BY <1>1, <1>3, <2>1
  <2>3. <<bus, idx>> \in {bus} \X (0 .. Count(product, bus) - 1)
    BY <2>2
  <2> QED
    BY <2>3 DEF Nets
<1>5. Typed'
  BY <1>1, <1>3, <1>4 DEF IInv, Typed
<1>6. \A net \in Nets(product) : Created(net)' <=> Created(net) \/ net = new
  <2> SUFFICES ASSUME NEW net \in Nets(product)
               PROVE  Created(net)' <=> Created(net) \/ net = new
    OBVIOUS
  <2>1. /\ net[1] \in Steps /\ net[2] \in Nat /\ net = <<net[1], net[2]>>
        /\ Place(product, net[1]) \in Nat
    BY <1>3, NetFacts, PlaceFacts
  <2>2. pos = Place(product, net[1]) <=> net[1] = bus
    <3>1. Place(product, bus) # 9
      BY <1>2, <1>3
    <3> QED
      BY <1>2, <1>3, <2>1, <3>1, Apart
  <2>3. net = new <=> net[1] = bus /\ net[2] = idx
    BY <1>4, <2>1
  <2>4. net[2] < idx + 1 <=> net[2] < idx \/ net[2] = idx
    BY <1>3, <2>1
  <2>5. Created(net)' <=> pos > Place(product, net[1]) \/ (net[1] = bus /\ net[2] < idx + 1)
    BY <1>1, <2>2 DEF Created
  <2>6. Created(net) <=> pos > Place(product, net[1]) \/ (net[1] = bus /\ net[2] < idx)
    BY <2>2 DEF Created
  <2> QED
    BY <2>3, <2>4, <2>5, <2>6
<1> HIDE DEF new
<1>7. Built'
  <2>1. \A net \in registered' : Created(net)'
    BY <1>1, <1>3, <1>4, <1>6 DEF IInv, Typed, Built
  <2>2. \A net \in Nets(product) : Created(net)' => net \in registered' \cup failures'
    BY <1>1, <1>3, <1>6 DEF Built
  <2> QED
    BY <1>1, <1>3, <2>1, <2>2 DEF Built
<1>8. Ended' /\ Undone' /\ UnsetOnlySo' /\ NothingLeft'
  BY <1>1 DEF IInv, Ended, Undone, UnsetOnlySo, NothingLeft
<1> QED
  BY <1>5, <1>7, <1>8 DEF IInv

(* The probe has done everything.                                          *)
LEMMA BoundStep ==
  ASSUME IInv, Bound
  PROVE  IInv'
<1>1. /\ kernel = "ok" /\ phase = "probing" /\ pos > Len(Order(product))
      /\ phase' = "bound"
      /\ UNCHANGED <<product, pos, idx, registered, opened, talking, failures,
                     list, handlers, boot, volt, kernel>>
  BY DEF Bound, netVars, msgVars, restVars
<1>2. pos = Last(product) + 1
  BY <1>1, OrderPlaces, PlaceFacts DEF IInv, Typed, Ended
<1>3. Typed'
  BY <1>1 DEF IInv, Typed, Phases
<1>4. Built'
  BY <1>1 DEF IInv, Built, Probed, Created
<1>5. Ended' /\ Undone' /\ UnsetOnlySo' /\ NothingLeft'
  BY <1>1, <1>2 DEF Ended, Undone, UnsetOnlySo, NothingLeft
<1> QED
  BY <1>3, <1>4, <1>5 DEF IInv

-----------------------------------------------------------------------------
(* The users and the device.                                               *)

(* open and close use what was built.                                      *)
LEMMA OpenStep ==
  ASSUME IInv, NEW net \in Nets(product), ops_open(net) \/ ops_close(net)
  PROVE  IInv'
<1>1. /\ kernel = "ok" /\ phase \in {"probing", "bound"}
      /\ opened' \subseteq registered
      /\ UNCHANGED <<product, phase, pos, idx, registered, failures, list,
                     handlers, boot, volt, kernel>>
  BY DEF IInv, Typed, ops_open, ops_close, Alive, msgVars, restVars
<1>2. Typed' /\ Ended' /\ Undone' /\ UnsetOnlySo' /\ NothingLeft'
  BY <1>1 DEF IInv, Typed, Ended, Undone, UnsetOnlySo, NothingLeft
<1>3. Built'
  BY <1>1 DEF IInv, Built, Probed, Created
<1> QED
  BY <1>2, <1>3 DEF IInv

(* Every message list is there once the probe is done.                     *)
LEMMA AllBuilt ==
  ASSUME IInv, phase = "bound"
  PROVE  \A net \in Nets(product) : net[1] \in list /\ net \in registered \cup failures
<1> SUFFICES ASSUME NEW net \in Nets(product)
             PROVE  net[1] \in list /\ net \in registered \cup failures
  OBVIOUS
<1>1. product \in Products /\ pos = Last(product) + 1 /\ Last(product) \in {4, 5}
  BY PlaceFacts DEF IInv, Typed, Ended
<1>2. /\ net[1] \in Buses /\ net[1] \in Steps /\ MsgOf(net[1]) \in Steps
      /\ Place(product, net[1]) <= Last(product)
      /\ Place(product, MsgOf(net[1])) <= Last(product)
  BY <1>1, NetFacts
<1>3. Place(product, net[1]) \in Nat /\ Place(product, MsgOf(net[1])) \in Nat
  BY <1>1, <1>2, PlaceFacts
<1>4. pos > Place(product, net[1]) /\ pos > Place(product, MsgOf(net[1]))
  BY <1>1, <1>2, <1>3
<1> QED
  BY <1>2, <1>4 DEF IInv, Built, Probed, Created

(* So does start_xmit.                                                     *)
LEMMA XmitStep ==
  ASSUME IInv, NEW net \in Nets(product), start_xmit(net)
  PROVE  IInv'
<1>1. /\ kernel = "ok" /\ phase \in {"probing", "bound"} /\ net \in opened
      /\ kernel' = IF net[1] \in list THEN "ok" ELSE "xmit"
      /\ UNCHANGED <<product, phase, pos, idx, registered, opened, talking,
                     failures, list, handlers, boot, volt>>
  BY DEF start_xmit, Alive, netVars, msgVars, restVars
<1>2. Typed' /\ Ended' /\ Undone' /\ NothingLeft'
  BY <1>1 DEF IInv, Typed, Ended, Undone, NothingLeft
<1>3. Built'
  BY <1>1 DEF IInv, Built, Probed, Created
<1>4. UnsetOnlySo'
  <2> SUFFICES ASSUME net[1] \notin list
               PROVE  phase = "probing" /\ ~(product = "mbus" /\ net[1] = "can")
    BY <1>1 DEF UnsetOnlySo
  <2>1. phase = "probing"
    BY <1>1, AllBuilt
  <2>2. ASSUME product = "mbus", net[1] = "can" PROVE FALSE
    <3>1. Created(net)
      BY <1>1 DEF IInv, Typed, Built, Probed
    <3>2. pos >= 3 /\ pos \in Nat
      BY <2>2, <3>1 DEF Created, Place, IInv, Typed
    <3>3. MsgOf("can") = "can_msg" /\ Place(product, "can_msg") = 2 /\ "can" \in Buses
      BY <2>2 DEF MsgOf, Place, Buses
    <3>4. "can" \in list
      BY <1>1, <3>2, <3>3 DEF IInv, Built, Probed
    <3> QED
      BY <2>2, <3>4
  <2> QED
    BY <2>1, <2>2
<1> QED
  BY <1>2, <1>3, <1>4 DEF IInv

(* So does a frame that is received.                                       *)
LEMMA RecvStep ==
  ASSUME IInv, NEW net \in Nets(product), net_recv(net)
  PROVE  IInv'
<1>1. /\ kernel = "ok" /\ phase \in {"probing", "bound"}
      /\ net \in talking /\ net[1] \in handlers
      /\ kernel' = IF net \in registered THEN "ok" ELSE "recv"
      /\ UNCHANGED <<product, phase, pos, idx, registered, opened, talking,
                     failures, list, handlers, boot, volt>>
  BY DEF net_recv, Alive, netVars, msgVars, restVars
<1>2. Typed' /\ Ended' /\ Undone' /\ NothingLeft'
  BY <1>1 DEF IInv, Typed, Ended, Undone, NothingLeft
<1>3. Built'
  BY <1>1 DEF IInv, Built, Probed, Created
<1>4. UnsetOnlySo'
  <2> SUFFICES ASSUME net \notin registered, net \notin failures
               PROVE  phase = "probing" /\ product = "mbus" /\ At("can")
    <3>1. (At("can") /\ phase = "probing")' <=> At("can") /\ phase = "probing"
      BY <1>1 DEF At
    <3> QED
      BY <1>1, <3>1 DEF UnsetOnlySo
  <2>1. phase = "probing"
    BY <1>1, AllBuilt
  <2>2. /\ product \in Products /\ pos \in Nat \ {0} /\ Last(product) \in {4, 5}
        /\ net[1] \in Buses /\ net[1] \in Steps /\ MsgOf(net[1]) \in Steps
        /\ Place(product, MsgOf(net[1])) > Place(product, net[1])
             \/ (product = "mbus" /\ net[1] = "can")
    BY NetFacts, PlaceFacts DEF IInv, Typed
  <2>3. /\ ~(pos > Place(product, net[1]))
        /\ pos > Place(product, MsgOf(net[1]))
    BY <1>1, <2>1 DEF IInv, Built, Probed, Created
  <2>4. Place(product, net[1]) \in Nat /\ Place(product, MsgOf(net[1])) \in Nat
    BY <2>2, PlaceFacts
  <2>5. product = "mbus" /\ net[1] = "can"
    BY <2>2, <2>3, <2>4
  <2>6. pos = 3
    BY <2>2, <2>3, <2>5 DEF Place, MsgOf
  <2>7. At("can")
    <3>1. Len(Order(product)) = 5
      BY <2>2, <2>5, OrderPlaces DEF Last
    <3>2. 3 \in 1 .. Last(product) /\ "can" \in Steps /\ Place(product, "can") = 3
      BY <2>5 DEF Last, Steps, Place
    <3>3. Order(product)[3] = "can"
      BY <2>2, <3>2, OrderPlaces
    <3> QED
      BY <2>1, <2>6, <3>1, <3>3 DEF At
  <2> QED
    BY <2>1, <2>5, <2>7
<1> QED
  BY <1>2, <1>3, <1>4 DEF IInv
-----------------------------------------------------------------------------
(* The disconnect.                                                         *)

(* guru_dev_deinit begins the disconnect of what was built.                *)
LEMMA DeinitStep ==
  ASSUME IInv, guru_dev_deinit
  PROVE  IInv'
<1>1. /\ kernel = "ok" /\ phase = "bound" /\ phase' = "leaving"
      /\ pos' = 1 /\ idx' = 0
      /\ UNCHANGED <<product, registered, opened, talking, failures, list,
                     handlers, boot, volt, kernel>>
  BY DEF guru_dev_deinit, netVars, msgVars, restVars
<1>2. product \in Products /\ Last(product) \in {4, 5} /\ pos = Last(product) + 1
  BY <1>1, PlaceFacts DEF IInv, Typed, Ended
<1>3. phase' \in Phases /\ pos' \in Nat \ {0} /\ idx' \in Nat
  BY <1>1 DEF Phases
<1>4. Typed'
  BY <1>1, <1>3 DEF IInv, Typed
<1>5. Built' /\ Ended' /\ UnsetOnlySo' /\ NothingLeft'
  BY <1>1 DEF Built, Probed, Ended, UnsetOnlySo, NothingLeft
<1>6. Undone'
  <2>1. \A net \in Nets(product) : Left(net)'
    <3> SUFFICES ASSUME NEW net \in Nets(product) PROVE Left(net)'
      OBVIOUS
    <3>1. /\ net[1] \in Steps /\ net[2] \in Nat
          /\ UndoPlace(product, net[1]) # 0 /\ UndoPlace(product, net[1]) \in 0 .. 2
      BY <1>2, NetFacts, PlaceFacts
    <3> QED
      BY <1>1, <3>1 DEF Left
  <2>2. \A net \in Nets(product) : net \in registered \cup failures
    BY <1>1, AllBuilt
  <2>3. /\ boot => pos > Place(product, "boot")
        /\ volt => pos > Place(product, "volt")
    BY <1>1 DEF IInv, Built, Probed
  <2>4. /\ Place(product, "boot") # 9 => UndoPlace(product, "boot") >= 1
        /\ Place(product, "volt") # 9 => UndoPlace(product, "volt") >= 1
    <3>1. UndoPlace(product, "boot") \in 0 .. 2 /\ UndoPlace(product, "volt") \in 0 .. 2
      BY <1>2, PlaceFacts DEF Steps
    <3> QED
      BY <1>2, <3>1, PlaceFacts
  <2>5. /\ boot' => pos' <= UndoPlace(product, "boot")
        /\ volt' => pos' <= UndoPlace(product, "volt")
    BY <1>1, <1>2, <2>3, <2>4
  <2>6. registered \subseteq Nets(product)
    BY DEF IInv, Typed
  <2> QED
    BY <1>1, <2>1, <2>2, <2>5, <2>6 DEF Undone
<1> QED
  BY <1>4, <1>5, <1>6 DEF IInv

(* A step of the disconnect is through.                                    *)
Through(step) ==
  /\ phase = "leaving" /\ kernel = "ok" /\ kernel' = "ok"
  /\ At(step) /\ Advance
  /\ UNCHANGED <<product, phase, registered, opened, failures>>
  /\ \A net \in Nets(product) : net[1] = step => net[2] < idx
  /\ boot' \in BOOLEAN /\ (boot' => boot /\ step # "boot")
  /\ volt' \in BOOLEAN /\ (volt' => volt /\ step # "volt")

(* A step of the disconnect that undoes what it should.                    *)
LEMMA Passed ==
  ASSUME IInv, NEW step \in Steps, Through(step)
  PROVE  IInv'
<1>1. /\ phase = "leaving" /\ kernel = "ok" /\ kernel' = "ok" /\ At(step)
      /\ pos' = pos + 1 /\ idx' = 0
      /\ product' = product /\ phase' = phase /\ registered' = registered
      /\ opened' = opened /\ failures' = failures
  BY DEF Through, Advance
<1>2. product \in Products /\ pos \in Nat \ {0} /\ idx \in Nat
  BY DEF IInv, Typed
<1>3. pos = UndoPlace(product, step)
  BY <1>1, AtPlace DEF IInv
<1>4. Typed'
  <2>1. boot' \in BOOLEAN /\ volt' \in BOOLEAN
    BY DEF Through
  <2>2. pos' \in Nat \ {0} /\ idx' \in Nat
    BY <1>1, <1>2
  <2> QED
    BY <1>1, <2>1, <2>2 DEF IInv, Typed
<1>5. Built' /\ Ended' /\ UnsetOnlySo' /\ NothingLeft'
  BY <1>1 DEF Built, Probed, Ended, UnsetOnlySo, NothingLeft
<1>6. \A s \in Steps : /\ UndoPlace(product, s) \in Nat
                       /\ pos = UndoPlace(product, s) <=> s = step
  <2> SUFFICES ASSUME NEW s \in Steps
               PROVE  /\ UndoPlace(product, s) \in Nat
                      /\ pos = UndoPlace(product, s) <=> s = step
    OBVIOUS
  <2>1. UndoPlace(product, s) \in Nat
    BY <1>2, PlaceFacts
  <2>2. s # step => UndoPlace(product, s) # pos
    BY <1>2, <1>3, Apart
  <2> QED
    BY <1>3, <2>1, <2>2
<1>7. \A net \in Nets(product) : Left(net)' <=> Left(net)
  <2> SUFFICES ASSUME NEW net \in Nets(product)
               PROVE  Left(net)' <=> Left(net)
    OBVIOUS
  <2>1. net[1] \in Steps /\ net[2] \in Nat
    BY <1>2, NetFacts
  <2>2. UndoPlace(product, net[1]) \in Nat
    BY <1>6, <2>1
  <2>3. Left(net)' <=> pos + 1 <= UndoPlace(product, net[1])
    BY <1>1, <1>2, <2>1, <2>2 DEF Left
  <2>4. pos = UndoPlace(product, net[1]) => net[2] < idx
    BY <1>6, <2>1 DEF Through
  <2>5. Left(net) <=> pos < UndoPlace(product, net[1])
    BY <1>2, <2>1, <2>4 DEF Left
  <2> QED
    BY <1>2, <2>2, <2>3, <2>5
<1>8. Undone'
  <2>1. Undone /\ registered \subseteq Nets(product)
    BY DEF IInv, Typed
  <2>2. \A net \in registered' : Left(net)'
    BY <1>1, <1>7, <2>1 DEF Undone
  <2>3. \A net \in Nets(product) : Left(net)' => net \in registered' \cup failures'
    BY <1>1, <1>7, <2>1 DEF Undone
  <2>4. boot' => pos' <= UndoPlace(product, "boot")
    <3> SUFFICES ASSUME boot' PROVE pos + 1 <= UndoPlace(product, "boot")
      BY <1>1
    <3>1. boot /\ "boot" # step /\ "boot" \in Steps
      BY DEF Through, Steps
    <3>2. pos <= UndoPlace(product, "boot") /\ pos # UndoPlace(product, "boot")
          /\ UndoPlace(product, "boot") \in Nat
      BY <1>1, <1>6, <2>1, <3>1 DEF Undone
    <3> QED
      BY <1>2, <3>2
  <2>5. volt' => pos' <= UndoPlace(product, "volt")
    <3> SUFFICES ASSUME volt' PROVE pos + 1 <= UndoPlace(product, "volt")
      BY <1>1
    <3>1. volt /\ "volt" # step /\ "volt" \in Steps
      BY DEF Through, Steps
    <3>2. pos <= UndoPlace(product, "volt") /\ pos # UndoPlace(product, "volt")
          /\ UndoPlace(product, "volt") \in Nat
      BY <1>1, <1>6, <2>1, <3>1 DEF Undone
    <3> QED
      BY <1>2, <3>2
  <2> QED
    BY <1>1, <2>2, <2>3, <2>4, <2>5 DEF Undone
<1> QED
  BY <1>4, <1>5, <1>8 DEF IInv

(* guru_boot_destroy undoes the boot device.                               *)
LEMMA BootDestroyStep ==
  ASSUME IInv, guru_boot_destroy
  PROVE  IInv'
<1>1. /\ phase = "leaving" /\ kernel = "ok" /\ At("boot") /\ boot' = FALSE /\ Advance
      /\ UNCHANGED <<product, phase, registered, opened, failures, volt, kernel>>
  BY DEF guru_boot_destroy, netVars
<1>2. \A net \in Nets(product) : net[1] # "boot"
  BY NetFacts DEF IInv, Typed, Buses
<1>3. boot' \in BOOLEAN /\ volt' \in BOOLEAN
  BY <1>1 DEF IInv, Typed
<1>4. Through("boot") /\ "boot" \in Steps
  BY <1>1, <1>2, <1>3 DEF Through, Steps
<1> QED
  BY <1>4, Passed

(* linguru_volt_destroy undoes the sensor.                                 *)
LEMMA VoltDestroyStep ==
  ASSUME IInv, linguru_volt_destroy
  PROVE  IInv'
<1>1. /\ phase = "leaving" /\ kernel = "ok" /\ At("volt") /\ volt' = FALSE /\ Advance
      /\ UNCHANGED <<product, phase, registered, opened, failures, boot, kernel>>
  BY DEF linguru_volt_destroy, netVars
<1>2. \A net \in Nets(product) : net[1] # "volt"
  BY NetFacts DEF IInv, Typed, Buses
<1>3. boot' \in BOOLEAN /\ volt' \in BOOLEAN
  BY <1>1 DEF IInv, Typed
<1>4. Through("volt") /\ "volt" \in Steps
  BY <1>1, <1>2, <1>3 DEF Through, Steps
<1> QED
  BY <1>4, Passed

(* One turn of the loop: an interface that was never created is one of the *)
(* failures.                                                               *)
LEMMA NetDestroyStep ==
  ASSUME IInv, NEW bus \in Buses, net_destroy(bus)
  PROVE  IInv'
<1> DEFINE old == <<bus, idx>>
<1>1. /\ kernel = "ok" /\ phase = "leaving" /\ At(bus)
      /\ UNCHANGED <<product, phase, failures, boot, volt>>
      /\ \/ /\ idx < Count(product, bus) /\ idx' = idx + 1 /\ pos' = pos
            /\ registered' = registered \ {old} /\ opened' = opened \ {old}
            /\ kernel' = IF old \in registered THEN "ok" ELSE "destroy"
         \/ /\ idx = Count(product, bus) /\ Advance
            /\ UNCHANGED <<registered, opened, kernel>>
  BY DEF net_destroy, restVars
<1>2. /\ product \in Products /\ pos \in Nat \ {0} /\ idx \in Nat
      /\ boot' \in BOOLEAN /\ volt' \in BOOLEAN
      /\ bus \in Steps /\ bus # "boot" /\ bus # "volt"
  BY <1>1 DEF IInv, Typed, Buses, Steps
<1>3. pos = UndoPlace(product, bus) /\ pos <= 2
  BY <1>1, <1>2, AtPlace DEF IInv
<1>4. CASE idx = Count(product, bus) /\ Advance /\ UNCHANGED <<registered, opened, kernel>>
  <2>1. \A net \in Nets(product) : net[1] = bus => net[2] < idx
    BY <1>2, <1>4, NetFacts
  <2>2. Through(bus)
    BY <1>1, <1>2, <1>4, <2>1 DEF Through
  <2> QED
    BY <1>2, <2>2, Passed
<1>5. CASE /\ idx < Count(product, bus) /\ idx' = idx + 1 /\ pos' = pos
           /\ registered' = registered \ {old} /\ opened' = opened \ {old}
           /\ kernel' = IF old \in registered THEN "ok" ELSE "destroy"
  <2>1. old \in Nets(product) /\ old[1] = bus /\ old[2] = idx
    <3>1. Count(product, bus) \in Nat
      BY <1>2, ProbeAssumption DEF Count, Products, Buses
    <3>2. idx \in 0 .. Count(product, bus) - 1
      BY <1>2, <1>5, <3>1
    <3>3. <<bus, idx>> \in {bus} \X (0 .. Count(product, bus) - 1)
      BY <3>2
    <3> QED
      BY <3>3 DEF Nets
  <2>2. \A net \in Nets(product) : Left(net)' <=> Left(net) /\ net # old
    <3> SUFFICES ASSUME NEW net \in Nets(product)
                 PROVE  Left(net)' <=> Left(net) /\ net # old
      OBVIOUS
    <3>1. /\ net[1] \in Steps /\ net[2] \in Nat /\ net = <<net[1], net[2]>>
          /\ UndoPlace(product, net[1]) \in Nat
      BY <1>2, NetFacts, PlaceFacts
    <3>2. pos = UndoPlace(product, net[1]) <=> net[1] = bus
      BY <1>2, <1>3, <3>1, Apart
    <3>3. net = old <=> net[1] = bus /\ net[2] = idx
      BY <2>1, <3>1
    <3>4. net[2] >= idx + 1 <=> net[2] >= idx /\ net[2] # idx
      BY <1>2, <3>1
    <3>5. Left(net)' <=>
            pos < UndoPlace(product, net[1]) \/ (net[1] = bus /\ net[2] >= idx + 1)
      BY <1>1, <1>5, <3>2 DEF Left
    <3>6. Left(net) <=>
            pos < UndoPlace(product, net[1]) \/ (net[1] = bus /\ net[2] >= idx)
      BY <3>2 DEF Left
    <3>7. net[1] = bus => ~(pos < UndoPlace(product, net[1]))
      BY <1>2, <1>3
    <3> QED
      BY <3>3, <3>4, <3>5, <3>6, <3>7
  <2>3. Left(old)
    BY <1>2, <1>3, <2>1 DEF Left
  <2> HIDE DEF old
  <2>4. Typed'
    <3>1. pos' \in Nat \ {0} /\ idx' \in Nat
      BY <1>2, <1>5
    <3> QED
      BY <1>1, <1>2, <1>5, <3>1 DEF IInv, Typed
  <2>5. Undone'
    <3>1. Undone /\ registered \subseteq Nets(product)
      BY DEF IInv, Typed
    <3>2. \A net \in registered' : Left(net)'
      BY <1>1, <1>5, <2>2, <3>1 DEF Undone
    <3>3. \A net \in Nets(product) : Left(net)' => net \in registered' \cup failures'
      BY <1>1, <1>5, <2>2, <3>1 DEF Undone
    <3>4. /\ boot' => pos' <= UndoPlace(product, "boot")
          /\ volt' => pos' <= UndoPlace(product, "volt")
      BY <1>1, <1>5, <3>1 DEF Undone
    <3> QED
      BY <1>1, <3>2, <3>3, <3>4 DEF Undone
  <2>6. UnsetOnlySo'
    <3>1. old \in registered \cup failures
      BY <1>1, <2>1, <2>3 DEF IInv, Undone
    <3> QED
      BY <1>1, <1>5, <3>1 DEF UnsetOnlySo
  <2>7. Built' /\ Ended' /\ NothingLeft'
    BY <1>1 DEF Built, Probed, Ended, NothingLeft
  <2> QED
    BY <2>4, <2>5, <2>6, <2>7 DEF IInv
<1> QED
  BY <1>1, <1>4, <1>5

(* Nothing is left to be undone.                                           *)
LEMMA GoneStep ==
  ASSUME IInv, Gone
  PROVE  IInv'
<1>1. /\ kernel = "ok" /\ phase = "leaving" /\ pos > Len(Undo(product))
      /\ phase' = "gone"
      /\ UNCHANGED <<product, pos, idx, registered, opened, talking, failures,
                     list, handlers, boot, volt, kernel>>
  BY DEF Gone, netVars, msgVars, restVars
<1>2. product \in Products /\ pos \in Nat /\ pos > 2 /\ opened \subseteq registered
  BY <1>1, UndoPlaces DEF IInv, Typed
<1>3. \A step \in Steps : UndoPlace(product, step) \in 0 .. 2
  BY <1>2, PlaceFacts
<1>4. registered = {}
  <2> SUFFICES ASSUME NEW net \in registered PROVE FALSE
    OBVIOUS
  <2>1. net \in Nets(product) /\ Left(net)
    BY <1>1 DEF IInv, Typed, Undone
  <2>2. net[1] \in Steps
    BY <1>2, <2>1, NetFacts
  <2> QED
    BY <1>2, <1>3, <2>1, <2>2 DEF Left
<1>5. ~boot /\ ~volt
  BY <1>1, <1>2, <1>3 DEF IInv, Undone, Steps
<1>6. Typed'
  BY <1>1 DEF IInv, Typed, Phases
<1>7. NothingLeft' /\ UnsetOnlySo'
  BY <1>1, <1>2, <1>4, <1>5 DEF NothingLeft, UnsetOnlySo
<1>8. Built' /\ Ended' /\ Undone'
  BY <1>1 DEF Built, Probed, Ended, Undone
<1> QED
  BY <1>6, <1>7, <1>8 DEF IInv

-----------------------------------------------------------------------------

(* Every step keeps the invariant.                                         *)
LEMMA NextStep == IInv /\ [Next]_vars => IInv'
<1> SUFFICES ASSUME IInv, [Next]_vars PROVE IInv'
  OBVIOUS
<1>1. CASE UNCHANGED vars
  <2>1. UNCHANGED <<product, phase, pos, idx, registered, opened, talking,
                    failures, list, handlers, boot, volt, kernel>>
    BY <1>1 DEF vars, netVars, msgVars, restVars
  <2>2. Typed' /\ Built' /\ Ended' /\ Undone'
    BY <2>1 DEF IInv, Typed, Built, Probed, Created, Ended, Undone, Left
  <2>3. UnsetOnlySo' /\ NothingLeft'
    BY <2>1 DEF IInv, UnsetOnlySo, At, NothingLeft
  <2> QED
    BY <2>2, <2>3 DEF IInv
<1>2. CASE guru_dev_init \/ guru_boot_create \/ linguru_volt_create \/ Bound
  BY <1>2, GuruStep, BootStep, VoltStep, BoundStep
<1>3. CASE \E bus \in Buses : \/ net_create(bus) \/ nets_created(bus)
                              \/ init_list(bus) \/ add_msgs(bus)
                              \/ net_destroy(bus)
  BY <1>3, NetCreateStep, CreatedAllStep, InitListStep, AddMsgsStep, NetDestroyStep
<1>4. CASE \E net \in Nets(product) : \/ ops_open(net) \/ ops_close(net)
                                      \/ start_xmit(net) \/ net_recv(net)
  BY <1>4, OpenStep, XmitStep, RecvStep
<1>5. CASE guru_dev_deinit \/ guru_boot_destroy \/ linguru_volt_destroy \/ Gone
  BY <1>5, DeinitStep, BootDestroyStep, VoltDestroyStep, GoneStep
<1> QED
  BY <1>1, <1>2, <1>3, <1>4, <1>5 DEF Next

(* What exists at each position of probe and disconnect, for every product.*)
THEOREM Inductive == Spec => []IInv
  BY InitHolds, NextStep, PTL DEF Spec

-----------------------------------------------------------------------------
(* The three ways a pointer that is not set can be used by start_xmit,     *)
(* net_recv and net_destroy are the only ones.                             *)
THEOREM UnsetPointers == Spec => []UnsetOnlySo
  BY Inductive, PTL DEF IInv

(* The deinit functions take apart whatever the probe has built, however   *)
(* much of it failed.                                                      *)
THEOREM LeavesNothing == Spec => []NothingLeft
  BY Inductive, PTL DEF IInv

(* A failed probe leaves interfaces registered only when guru_boot_create  *)
(* or linguru_volt_create was what failed: usb_probe undoes nothing.       *)
THEOREM FailedProbe == Spec => []FailedLeaves
<1>1. IInv => FailedLeaves
  <2> SUFFICES ASSUME IInv, phase = "failed", registered # {}
               PROVE  At("boot") \/ At("volt")
    BY DEF FailedLeaves
  <2>1. PICK step \in {"guru", "boot", "volt"} :
          pos = Place(product, step) /\ pos # 9
    BY DEF IInv, Ended
  <2>2. /\ product \in Products /\ pos \in Nat \ {0} /\ step \in Steps
        /\ pos <= Last(product) /\ Last(product) \in {4, 5}
    BY <2>1, PlaceFacts DEF IInv, Typed, Steps
  <2>3. step # "guru"
    <3> SUFFICES ASSUME step = "guru" PROVE FALSE
      OBVIOUS
    <3>1. pos = 1
      BY <2>1, <2>2, PlaceFacts
    <3>2. PICK net \in registered : Created(net) /\ net \in Nets(product)
      BY DEF IInv, Typed, Built, Probed
    <3>3. net[1] \in Buses
      BY <2>2, <3>2, NetFacts
    <3>4. Place(product, net[1]) \in Nat /\ Place(product, net[1]) >= 2
      BY <2>2, <3>3, PlaceFacts DEF Buses, Steps
    <3> QED
      BY <3>1, <3>2, <3>4 DEF Created
  <2>4. At(step)
    <3>1. Len(Order(product)) = Last(product) /\ pos \in 1 .. Last(product)
      BY <2>2, OrderPlaces
    <3>2. Order(product)[pos] = step
      BY <2>1, <2>2, <3>1, OrderPlaces
    <3> QED
      BY <2>2, <3>1, <3>2 DEF At
  <2> QED
    BY <2>3, <2>4
<1> QED
  BY <1>1, Inductive, PTL
=============================================================================
