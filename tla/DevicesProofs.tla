--------------------------- MODULE DevicesProofs ----------------------------
(***************************************************************************)
(* The row of a device is true of every device, for every set of versions  *)
(* and of offers and for a network of any size.                            *)
(*                                                                         *)
(* RowTrue is not inductive: a call that is still on its way may be the    *)
(* next to write the row.  The strengthening says of every call what the   *)
(* row will say of it, and holds because the versions a device has run are *)
(* never forgotten, however late the call arrives.                         *)
(***************************************************************************)
EXTENDS Devices, FiniteSetTheorems, TLAPS

(* What a message says has happened was so when it was sent.               *)
Truthful(m, known) ==
    /\ m.kind \in {"check", "heartbeat"} => m.code \in known
    /\ m.kind = "heartbeat" => m.res \in known
    /\ m.kind = "event" /\ m.type = "install_success" => m.code \in known
    /\ m.kind = "event" /\ m.type = "activation_success" => m.res \in known

IInv ==
    /\ NoResource \in ran
    /\ device \in [code: ran, res: ran]
    /\ row \in {Missing} \cup [code: ran \cup {0}, res: ran]
    /\ \A m \in net : Truthful(m, ran)

(* Sending adds at most the message sent to those there are.               *)
LEMMA SendAdds ==
    ASSUME NEW others, NEW m, Send(others, m)
    PROVE  net' \subseteq others \cup {m}
BY DEF Send

(* A call that arrives may stay in flight, and nothing else changes there. *)
LEMMA RestKept ==
    ASSUME NEW m, NEW others \in Rest(m)
    PROVE  others \subseteq net /\ others \in {net, net \ {m}}
BY DEF Rest

LEMMA ReplyAdds ==
    ASSUME NEW m, NEW answer, Reply(m, answer)
    PROVE  net' \subseteq net \cup {answer}
BY RestKept, SendAdds DEF Reply

(* What is known stays known.                                              *)
LEMMA TruthfulGrows ==
    ASSUME NEW known, NEW m, NEW more, known \subseteq more, Truthful(m, known)
    PROVE  Truthful(m, more)
BY DEF Truthful

(* A row that is there has columns of its type; a missing one is blank.    *)
LEMMA RowColumns ==
    ASSUME IInv
    PROVE  Row \in [code: ran \cup {0}, res: ran]
BY DEF IInv, Row, Blank

(* A row that replaces a column by a version that was run stays true.      *)
LEMMA RowStaysTrue ==
    ASSUME IInv, NEW m \in net,
           \/ UpsertInstallation(m.code) /\ m.kind = "check"
           \/ row' = Heartbeat(m) /\ m.kind = "heartbeat"
           \/ row' = AfterUpgradeEvent(m) /\ m.kind = "event"
           \/ row' = AfterResourceEvent(m) /\ m.kind = "event"
           \/ row' = AfterEventDemo(m) /\ m.kind = "event"
    PROVE  row' \in {Missing} \cup [code: ran \cup {0}, res: ran]
<1>1. Truthful(m, ran) /\ NoResource \in ran
  BY DEF IInv
<1>2. Row \in [code: ran \cup {0}, res: ran]
  BY RowColumns
<1>3. CASE UpsertInstallation(m.code) /\ m.kind = "check"
  BY <1>1, <1>2, <1>3 DEF Truthful, UpsertInstallation, IInv
<1>4. CASE row' = Heartbeat(m) /\ m.kind = "heartbeat"
  BY <1>1, <1>2, <1>4 DEF Truthful, Heartbeat
<1>5. CASE row' = AfterUpgradeEvent(m) /\ m.kind = "event"
  BY <1>1, <1>2, <1>5 DEF Truthful, AfterUpgradeEvent
<1>6. CASE row' = AfterResourceEvent(m) /\ m.kind = "event"
  BY <1>1, <1>2, <1>6 DEF Truthful, AfterResourceEvent
<1>7. CASE row' = AfterEventDemo(m) /\ m.kind = "event"
  <2>1. CASE row = Missing
    BY <1>1, <1>7, <2>1 DEF AfterEventDemo, Blank
  <2>2. CASE row # Missing
    <3>1. row \in [code: ran \cup {0}, res: ran]
      BY <2>2 DEF IInv
    <3>2. QED
      BY <1>1, <1>7, <2>2, <3>1 DEF AfterEventDemo, Truthful
  <2>3. QED
    BY <2>1, <2>2
<1>8. QED
  BY <1>3, <1>4, <1>5, <1>6, <1>7

(* The invariant is kept where only the network changes, by messages that  *)
(* are true.                                                               *)
LEMMA NetworkKeeps ==
    ASSUME IInv, NEW m, Truthful(m, ran), net' \subseteq net \cup {m},
           UNCHANGED <<device, ran>>,
           row' \in {Missing} \cup [code: ran \cup {0}, res: ran]
    PROVE  IInv'
BY DEF IInv

LEMMA InitIInv == ASSUME Init PROVE IInv
BY DEF Init, IInv

(* What the device asks is what it runs.                                   *)
LEMMA AskIInv == ASSUME IInv, NEW kind \in Requests, Ask(kind) PROVE IInv'
<1> DEFINE m == [kind |-> kind,
                 code |-> IF kind = "resource" THEN 0 ELSE device.code,
                 res |-> IF kind = "check" THEN NoResource ELSE device.res]
<1>1. Truthful(m, ran)
  BY DEF Truthful, IInv, Requests
<1>2. net' \subseteq net \cup {m}
  BY SendAdds DEF Ask
<1>3. UNCHANGED <<device, ran, row>>
  BY DEF Ask
<1> HIDE DEF m
<1>4. QED
  BY <1>1, <1>2, <1>3, NetworkKeeps DEF IInv

(* The device runs what it installs and activates, and says so.            *)
LEMMA DeviceIInv ==
    ASSUME IInv, NEW m \in net,
           Install(m) \/ InstallFails(m) \/ Activate(m) \/ ActivateFails(m)
    PROVE  IInv'
<1>1. CASE Install(m)
  <2> DEFINE e == [kind |-> "event", type |-> "install_success", code |-> m.code,
                   res |-> NoResource]
  <2>1. net' \subseteq net \cup {e}
    BY <1>1, ReplyAdds DEF Install, Report
  <2>2. /\ ran' = ran \cup {m.code} /\ row' = row
        /\ device' = [device EXCEPT !.code = m.code]
    BY <1>1 DEF Install
  <2>3. Truthful(e, ran')
    BY <2>2 DEF Truthful
  <2>4. \A k \in net : Truthful(k, ran')
    BY <2>2, TruthfulGrows DEF IInv
  <2> HIDE DEF e
  <2>5. QED
    BY <2>1, <2>2, <2>3, <2>4 DEF IInv
<1>2. CASE Activate(m)
  <2> DEFINE e == [kind |-> "event", type |-> "activation_success", code |-> 0,
                   res |-> m.res]
  <2>1. net' \subseteq net \cup {e}
    BY <1>2, ReplyAdds DEF Activate, Report
  <2>2. /\ ran' = ran \cup {m.res} /\ row' = row
        /\ device' = [device EXCEPT !.res = m.res]
    BY <1>2 DEF Activate
  <2>3. Truthful(e, ran')
    BY <2>2 DEF Truthful
  <2>4. \A k \in net : Truthful(k, ran')
    BY <2>2, TruthfulGrows DEF IInv
  <2> HIDE DEF e
  <2>5. QED
    BY <2>1, <2>2, <2>3, <2>4 DEF IInv
<1>3. ASSUME NEW type \in {"install_failed", "activation_failed",
                           "resource_rollback_success"},
             NEW code, NEW res, Report(m, type, code, res),
             UNCHANGED <<device, ran, row>>
      PROVE  IInv'
  <2> DEFINE e == [kind |-> "event", type |-> type, code |-> code, res |-> res]
  <2>1. Truthful(e, ran)
    BY DEF Truthful
  <2>2. net' \subseteq net \cup {e}
    BY <1>3, ReplyAdds DEF Report
  <2> HIDE DEF e
  <2>3. QED
    BY <1>3, <2>1, <2>2, NetworkKeeps DEF IInv
<1>4. CASE InstallFails(m)
  BY <1>3, <1>4 DEF InstallFails
<1>5. CASE ActivateFails(m)
  BY <1>3, <1>5 DEF ActivateFails
<1>6. QED
  BY <1>1, <1>2, <1>4, <1>5

(* The server writes no more than the call says.                           *)
LEMMA ServerIInv ==
    ASSUME IInv, NEW m \in net,
           \/ HandleCheck(m) \/ HandleResourceCheck(m) \/ HandleHeartbeat(m)
           \/ HandleEvent(m) \/ Lose(m)
    PROVE  IInv'
<1>1. ASSUME NEW k, k.kind \in {"update", "packages"}, net' \subseteq net \cup {k},
             UNCHANGED <<device, ran>>,
             row' \in {Missing} \cup [code: ran \cup {0}, res: ran]
      PROVE  IInv'
  BY <1>1, NetworkKeeps DEF Truthful
<1>2. ASSUME net' \subseteq net, UNCHANGED <<device, ran>>,
             row' \in {Missing} \cup [code: ran \cup {0}, res: ran]
      PROVE  IInv'
  BY <1>2 DEF IInv
<1>3. CASE HandleCheck(m)
  <2>1. row' \in {Missing} \cup [code: ran \cup {0}, res: ran]
    BY <1>3, RowStaysTrue DEF HandleCheck
  <2>2. CASE hasUpdate(offer, m.code)
    <3>1. net' \subseteq net \cup {[kind |-> "update", code |-> offer.code]}
      BY <1>3, <2>2, ReplyAdds DEF HandleCheck
    <3>2. QED
      BY <1>1, <1>3, <2>1, <3>1 DEF HandleCheck
  <2>3. CASE ~hasUpdate(offer, m.code)
    BY <1>2, <1>3, <2>1, <2>3, RestKept DEF HandleCheck
  <2>4. QED
    BY <2>2, <2>3
<1>4. CASE HandleResourceCheck(m)
  <2>1. row' \in {Missing} \cup [code: ran \cup {0}, res: ran]
    BY <1>4 DEF HandleResourceCheck, IInv
  <2>2. CASE hasResource(resOffer, m.res)
    <3>1. net' \subseteq net \cup {[kind |-> "packages", res |-> resOffer.version]}
      BY <1>4, <2>2, ReplyAdds DEF HandleResourceCheck
    <3>2. QED
      BY <1>1, <1>4, <2>1, <3>1 DEF HandleResourceCheck
  <2>3. CASE ~hasResource(resOffer, m.res)
    BY <1>2, <1>4, <2>1, <2>3, RestKept DEF HandleResourceCheck
  <2>4. QED
    BY <2>2, <2>3
<1>5. CASE HandleHeartbeat(m)
  BY <1>2, <1>5, RowStaysTrue, RestKept DEF HandleHeartbeat
<1>6. CASE HandleEvent(m)
  BY <1>2, <1>6, RowStaysTrue, RestKept DEF HandleEvent
<1>7. CASE Lose(m)
  BY <1>2, <1>7 DEF Lose, IInv
<1>8. QED
  BY <1>3, <1>4, <1>5, <1>6, <1>7

LEMMA NextIInv == ASSUME IInv, [Next]_vars PROVE IInv'
<1>1. CASE \E kind \in Requests : Ask(kind)
  BY <1>1, AskIInv
<1>2. ASSUME NEW m \in net,
             \/ Install(m) \/ InstallFails(m) \/ Activate(m) \/ ActivateFails(m)
      PROVE  IInv'
  BY <1>2, DeviceIInv
<1>3. ASSUME NEW m \in net,
             \/ HandleCheck(m) \/ HandleResourceCheck(m) \/ HandleHeartbeat(m)
             \/ HandleEvent(m) \/ Lose(m)
      PROVE  IInv'
  BY <1>3, ServerIInv
<1>4. CASE ChangeOffer
  BY <1>4 DEF ChangeOffer, IInv
<1>5. CASE ChangeResOffer
  BY <1>5 DEF ChangeResOffer, IInv
<1>6. CASE Restart
  BY <1>6 DEF Restart, IInv
<1>7. CASE UNCHANGED vars
  BY <1>7 DEF vars, IInv
<1>8. QED
  BY <1>1, <1>2, <1>3, <1>4, <1>5, <1>6, <1>7 DEF Next

(* However late, lost, repeated or reordered its calls, the row of a       *)
(* device names no version that the device has not run (UpsertInstallation,*)
(* SaveHeartbeat and SaveUpdateEvent of either store).                     *)
THEOREM RowTrueHolds == Spec => []RowTrue
<1>1. IInv => RowTrue
  BY DEF IInv, RowTrue
<1>2. QED
  BY <1>1, InitIInv, NextIInv, PTL DEF Spec
-----------------------------------------------------------------------------
(* Type correctness.  That the network stays within its bound needs that   *)
(* it is finite: only then has it a number of messages.                    *)
Message == Event \cup Request \cup Answer

TypeInv == TypeOK /\ IsFiniteSet(net)

(* A message that is sent finds room, or takes that of another one.        *)
LEMMA SendType ==
    ASSUME NEW others \in SUBSET Message, IsFiniteSet(others),
           Cardinality(others) <= InFlight, NEW m \in Message, Send(others, m)
    PROVE  net' \subseteq Message /\ IsFiniteSet(net') /\ Cardinality(net') <= InFlight
<1>1. IsFiniteSet(others \cup {m})
  BY FS_AddElement
<1>2. CASE net' = others \cup {m} /\ Cardinality(others \cup {m}) <= InFlight
  BY <1>1, <1>2
<1>3. CASE Cardinality(others \cup {m}) > InFlight
  <2>1. PICK lost \in others : net' = (others \ {lost}) \cup {m}
    BY <1>1, <1>3, FS_CardinalityType, OffersAssumption DEF Send
  <2>2. m \notin others
    <3>1. m \in others => others \cup {m} = others
      OBVIOUS
    <3>2. Cardinality(others) \in Nat
      BY FS_CardinalityType
    <3>3. m \in others => Cardinality(others) > InFlight
      BY <1>3, <3>1
    <3>4. QED BY <3>2, <3>3, OffersAssumption
  <2>3. IsFiniteSet(others \ {lost})
        /\ Cardinality(others \ {lost}) = Cardinality(others) - 1
    BY FS_RemoveElement
  <2>4. IsFiniteSet(net') /\ Cardinality(net') = Cardinality(others \ {lost}) + 1
    BY <2>1, <2>2, <2>3, FS_AddElement
  <2>5. QED
    BY <2>1, <2>3, <2>4, FS_CardinalityType, OffersAssumption
<1>4. QED BY <1>2, <1>3 DEF Send

(* Taking a message from the network, or leaving it there, adds none.      *)
LEMMA ReceiveType ==
    ASSUME TypeInv, NEW m, NEW others \in {net, net \ {m}}
    PROVE  others \in SUBSET Message /\ IsFiniteSet(others) /\ Cardinality(others) <= InFlight
<1>1. IsFiniteSet(net) /\ Cardinality(net) <= InFlight /\ net \subseteq Message
  BY DEF TypeInv, TypeOK, Message
<1>2. IsFiniteSet(net \ {m}) /\ Cardinality(net \ {m}) <= Cardinality(net)
  BY <1>1, FS_Subset
<1>3. Cardinality(net \ {m}) <= InFlight
  <2>1. Cardinality(net) \in Nat /\ Cardinality(net \ {m}) \in Nat
    BY <1>1, <1>2, FS_CardinalityType
  <2>2. QED BY <1>1, <1>2, <2>1, OffersAssumption
<1>4. CASE others = net
  BY <1>1, <1>4
<1>5. CASE others = net \ {m}
  BY <1>1, <1>2, <1>3, <1>5
<1>6. QED
  BY <1>4, <1>5

(* The type of a message follows from its kind.                            *)
LEMMA KindType ==
    ASSUME TypeInv, NEW m \in net
    PROVE  /\ m.kind \in Requests => m.code \in 0 .. MaxCode /\ m.res \in Versions
           /\ m.kind \in {"check", "heartbeat"} => m.code \in Codes
           /\ m.kind = "event" => m.code \in 0 .. MaxCode /\ m.res \in Versions
           /\ m.kind = "update" => m.code \in Codes
           /\ m.kind = "packages" => m.res \in Resources
BY OffersAssumption
   DEF TypeInv, TypeOK, Event, Request, Answer, Requests, Codes, Versions

(* A row that is not there is blank, and every column has its type.        *)
LEMMA RowType ==
    ASSUME TypeInv
    PROVE  {Row, Blank} \subseteq [code: 0 .. MaxCode, res: Versions]
BY OffersAssumption DEF TypeInv, TypeOK, Row, Blank, Versions

(* The device asks and reports in messages of the type.                    *)
LEMMA DeviceType ==
    ASSUME TypeInv,
           \/ \E kind \in Requests : Ask(kind)
           \/ \E m \in net : Install(m) \/ InstallFails(m) \/ Activate(m) \/ ActivateFails(m)
    PROVE  TypeInv'
<1> DEFINE NetOK == net' \subseteq Message /\ IsFiniteSet(net') /\ Cardinality(net') <= InFlight
<1>1. /\ net \in SUBSET Message /\ IsFiniteSet(net) /\ Cardinality(net) <= InFlight
      /\ device \in [code: Codes, res: Versions]
      /\ Codes \subseteq 0 .. MaxCode /\ 0 \in 0 .. MaxCode /\ NoResource \in Versions
      /\ Resources \subseteq Versions
  BY OffersAssumption DEF TypeInv, TypeOK, Message, Codes, Versions
<1>2. ASSUME NEW kind \in Requests, Ask(kind)
      PROVE  TypeInv'
  <2> DEFINE m == [kind |-> kind,
                   code |-> IF kind = "resource" THEN 0 ELSE device.code,
                   res |-> IF kind = "check" THEN NoResource ELSE device.res]
  <2>1. m \in Message
    BY <1>1 DEF Message, Request, Requests
  <2>2. Send(net, m)
    BY <1>2 DEF Ask
  <2> HIDE DEF m
  <2>3. NetOK
    BY <1>1, <2>1, <2>2, SendType
  <2>4. QED
    BY <1>2, <2>3 DEF TypeInv, TypeOK, Message, Ask
<1>3. ASSUME NEW m \in net, NEW type, NEW code, NEW res, Report(m, type, code, res),
             \/ type \in AppEvents /\ code \in Codes /\ res = NoResource
             \/ type \in ResourceEvents /\ code = 0 /\ res \in Resources
      PROVE  NetOK
  <2> DEFINE e == [kind |-> "event", type |-> type, code |-> code, res |-> res]
  <2>1. e \in Message
    BY <1>3 DEF Message, Event
  <2>2. PICK others \in Rest(m) : Send(others, e)
    BY <1>3 DEF Report, Reply
  <2> HIDE DEF e
  <2>3. QED BY <2>1, <2>2, RestKept, ReceiveType, SendType
<1>4. ASSUME NEW m \in net, Install(m)
      PROVE  TypeInv'
  <2>1. m.code \in Codes
    BY <1>4, KindType DEF Install
  <2>2. NetOK
    BY <1>1, <1>3, <1>4, <2>1 DEF Install, AppEvents
  <2>3. device' \in [code: Codes, res: Versions] /\ ran' \subseteq Codes \cup Versions
    BY <1>1, <1>4, <2>1 DEF Install, TypeInv, TypeOK
  <2>4. QED
    BY <1>4, <2>2, <2>3 DEF TypeInv, TypeOK, Message, Install
<1>5. ASSUME NEW m \in net, InstallFails(m)
      PROVE  TypeInv'
  <2>1. m.code \in Codes
    BY <1>5, KindType DEF InstallFails
  <2>2. NetOK
    BY <1>1, <1>3, <1>5, <2>1 DEF InstallFails, AppEvents
  <2>3. QED
    BY <1>5, <2>2 DEF TypeInv, TypeOK, Message, InstallFails
<1>6. ASSUME NEW m \in net, Activate(m)
      PROVE  TypeInv'
  <2>1. m.res \in Resources
    BY <1>6, KindType DEF Activate
  <2>2. NetOK
    BY <1>1, <1>3, <1>6, <2>1 DEF Activate, ResourceEvents
  <2>3. device' \in [code: Codes, res: Versions] /\ ran' \subseteq Codes \cup Versions
    BY <1>1, <1>6, <2>1 DEF Activate, TypeInv, TypeOK
  <2>4. QED
    BY <1>6, <2>2, <2>3 DEF TypeInv, TypeOK, Message, Activate
<1>7. ASSUME NEW m \in net, ActivateFails(m)
      PROVE  TypeInv'
  <2>1. m.res \in Resources
    BY <1>7, KindType DEF ActivateFails
  <2>2. NetOK
    BY <1>1, <1>3, <1>7, <2>1 DEF ActivateFails, ResourceEvents
  <2>3. QED
    BY <1>7, <2>2 DEF TypeInv, TypeOK, Message, ActivateFails
<1>8. QED BY <1>2, <1>4, <1>5, <1>6, <1>7
(* What the server answers and writes is of the type.                      *)
LEMMA ServerType ==
    ASSUME TypeInv, NEW m \in net,
           \/ HandleCheck(m) \/ HandleResourceCheck(m) \/ HandleHeartbeat(m)
           \/ HandleEvent(m) \/ Lose(m)
    PROVE  TypeInv'
<1> DEFINE NetOK == net' \subseteq Message /\ IsFiniteSet(net') /\ Cardinality(net') <= InFlight
           Rows == [code: 0 .. MaxCode, res: Versions]
<1>1. NoResource \in Versions /\ Resources \subseteq Versions
  BY DEF Versions
<1>2. net' \in {net, net \ {m}} => NetOK
  BY ReceiveType
<1>3. Row \in Rows /\ Blank \in Rows /\ row \in {Missing} \cup Rows
  BY RowType DEF TypeInv, TypeOK
<1>4. CASE HandleCheck(m)
  <2>1. m.code \in 0 .. MaxCode
    BY <1>4, KindType DEF HandleCheck, Requests
  <2>2. row' \in {Missing} \cup Rows
    BY <1>3, <1>4, <2>1 DEF HandleCheck, UpsertInstallation
  <2>3. CASE hasUpdate(offer, m.code)
    <3> DEFINE a == [kind |-> "update", code |-> offer.code]
    <3>1. a \in Message
      BY OffersAssumption DEF TypeInv, TypeOK, Message, Answer
    <3>2. PICK others \in Rest(m) : Send(others, a)
      BY <1>4, <2>3 DEF HandleCheck, Reply
    <3> HIDE DEF a
    <3>3. NetOK
      BY <3>1, <3>2, RestKept, ReceiveType, SendType
    <3>4. QED
      BY <1>4, <2>2, <3>3 DEF TypeInv, TypeOK, Message, HandleCheck
  <2>4. CASE ~hasUpdate(offer, m.code)
    BY <1>2, <1>4, <2>2, <2>4, RestKept DEF TypeInv, TypeOK, Message, HandleCheck
  <2>5. QED BY <2>3, <2>4
<1>5. CASE HandleResourceCheck(m)
  <2>1. CASE hasResource(resOffer, m.res)
    <3> DEFINE a == [kind |-> "packages", res |-> resOffer.version]
    <3>1. resOffer.version \in Resources
      BY <2>1, OffersAssumption DEF TypeInv, TypeOK, hasResource, Nobody, Versions
    <3>2. a \in Message
      BY <3>1 DEF Message, Answer
    <3>3. PICK others \in Rest(m) : Send(others, a)
      BY <1>5, <2>1 DEF HandleResourceCheck, Reply
    <3> HIDE DEF a
    <3>4. NetOK
      BY <3>2, <3>3, RestKept, ReceiveType, SendType
    <3>5. QED
      BY <1>5, <3>4 DEF TypeInv, TypeOK, Message, HandleResourceCheck
  <2>2. CASE ~hasResource(resOffer, m.res)
    BY <1>2, <1>5, <2>2, RestKept DEF TypeInv, TypeOK, Message, HandleResourceCheck
  <2>3. QED BY <2>1, <2>2
<1>6. CASE HandleHeartbeat(m)
  <2>1. m.code \in 0 .. MaxCode /\ m.res \in Versions
    BY <1>6, KindType DEF HandleHeartbeat, Requests
  <2>2. row' \in Rows
    BY <1>3, <1>6, <2>1 DEF HandleHeartbeat, Heartbeat
  <2>3. QED
    BY <1>2, <1>6, <2>2, RestKept DEF TypeInv, TypeOK, Message, HandleHeartbeat
<1>7. CASE HandleEvent(m)
  <2>1. m.code \in 0 .. MaxCode /\ m.res \in Versions
    BY <1>7, KindType DEF HandleEvent
  <2>2. AfterUpgradeEvent(m) \in Rows
    BY <1>3, <2>1 DEF AfterUpgradeEvent
  <2>3. AfterResourceEvent(m) \in Rows
    BY <1>3, <2>1 DEF AfterResourceEvent
  <2>4. AfterEventDemo(m) \in Rows
    BY <1>3, <2>1 DEF AfterEventDemo
  <2>5. row' \in Rows
    BY <1>7, <2>2, <2>3, <2>4 DEF HandleEvent
  <2>6. QED
    BY <1>2, <1>7, <2>5, RestKept DEF TypeInv, TypeOK, Message, HandleEvent
<1>8. CASE Lose(m)
  BY <1>2, <1>8 DEF TypeInv, TypeOK, Message, Lose
<1>9. QED BY <1>4, <1>5, <1>6, <1>7, <1>8

LEMMA NextType == ASSUME TypeInv, [Next]_vars PROVE TypeInv'
<1>1. CASE ChangeOffer \/ ChangeResOffer \/ Restart \/ UNCHANGED vars
  BY <1>1 DEF TypeInv, TypeOK, ChangeOffer, ChangeResOffer, Restart, vars
<1>2. QED BY <1>1, DeviceType, ServerType DEF Next

LEMMA InitTypeInv == ASSUME Init PROVE TypeInv
<1>1. IsFiniteSet({}) /\ Cardinality({}) = 0
  BY FS_EmptySet
<1>2. QED
  BY <1>1, OffersAssumption DEF Init, TypeInv, TypeOK, Codes, Versions

(* Every row, message and offer keeps its shape, and no more messages are  *)
(* in flight than the network holds.                                       *)
THEOREM TypeOKHolds == Spec => []TypeOK
<1>1. TypeInv => TypeOK
  BY DEF TypeInv
<1>2. QED
  BY <1>1, InitTypeInv, NextType, PTL DEF Spec

-----------------------------------------------------------------------------
(* An update check turns a device away only if the device runs what is     *)
(* offered now, or a later version: the check may be old and the offer new,*)
(* but no check says more than its device runs, which never goes back.     *)
NothingWithheld ==
    [][\A m \in net : HandleCheck(m) /\ ~hasUpdate(offer, m.code) =>
          device.code >= offer.code]_vars

(* NothingWithheld: a check on its way says no more than the device runs,  *)
(* and the device only goes forward.                                       *)
NotAhead == \A m \in net : m.kind = "check" => m.code <= device.code

LEMMA NextNotAhead ==
    ASSUME TypeInv, NotAhead, [Next]_vars
    PROVE  NotAhead'
<1>1. device \in [code: Codes, res: Versions]
      /\ \A m \in net : m.kind \in {"check", "update"} => m.code \in Int
  BY KindType, OffersAssumption DEF TypeInv, TypeOK, Codes
<1>2. ASSUME NEW e, net' \subseteq net \cup {e},
             e.kind = "check" => e.code <= device'.code,
             device'.code \in Int, device.code <= device'.code
      PROVE  NotAhead'
  BY <1>1, <1>2 DEF NotAhead, Codes
<1>3. ASSUME net' \subseteq net, device' = device
      PROVE  NotAhead'
  BY <1>3 DEF NotAhead
<1>4. ASSUME NEW kind \in Requests, Ask(kind)
      PROVE  NotAhead'
  <2> DEFINE e == [kind |-> kind,
                   code |-> IF kind = "resource" THEN 0 ELSE device.code,
                   res |-> IF kind = "check" THEN NoResource ELSE device.res]
  <2>1. e.kind = "check" => e.code = device.code
    OBVIOUS
  <2>2. net' \subseteq net \cup {e} /\ device' = device
    BY <1>4, SendAdds DEF Ask
  <2> HIDE DEF e
  <2>3. QED BY <1>1, <1>2, <2>1, <2>2 DEF Codes
<1>5. ASSUME NEW m \in net, NEW type, NEW code, NEW res, Report(m, type, code, res),
             device'.code \in Int, device.code <= device'.code
      PROVE  NotAhead'
  <2> DEFINE e == [kind |-> "event", type |-> type, code |-> code, res |-> res]
  <2>1. e.kind # "check"
    OBVIOUS
  <2>2. net' \subseteq net \cup {e}
    BY <1>5, ReplyAdds DEF Report
  <2> HIDE DEF e
  <2>3. QED BY <1>2, <1>5, <2>1, <2>2
<1>6. ASSUME NEW m \in net,
             Install(m) \/ InstallFails(m) \/ Activate(m) \/ ActivateFails(m)
      PROVE  NotAhead'
  <2>1. CASE Install(m)
    <3>1. device'.code = m.code /\ m.code \in Int /\ m.code > device.code
      BY <1>1, <2>1 DEF Install
    <3>2. QED BY <1>1, <1>5, <2>1, <3>1 DEF Install, Codes
  <2>2. CASE Activate(m)
    <3>1. device'.code = device.code
      BY <1>1, <2>2 DEF Activate
    <3>2. QED BY <1>1, <1>5, <2>2, <3>1 DEF Activate, Codes
  <2>3. CASE InstallFails(m)
    BY <1>1, <1>5, <2>3 DEF InstallFails, Codes
  <2>4. CASE ActivateFails(m)
    BY <1>1, <1>5, <2>4 DEF ActivateFails, Codes
  <2>5. QED BY <1>6, <2>1, <2>2, <2>3, <2>4
<1>7. ASSUME NEW m \in net,
             \/ HandleCheck(m) \/ HandleResourceCheck(m) \/ HandleHeartbeat(m)
             \/ HandleEvent(m) \/ Lose(m)
      PROVE  NotAhead'
  <2>1. CASE HandleCheck(m) /\ hasUpdate(offer, m.code)
    <3> DEFINE a == [kind |-> "update", code |-> offer.code]
    <3>1. net' \subseteq net \cup {a} /\ device' = device
      BY <2>1, ReplyAdds DEF HandleCheck
    <3>2. a.kind # "check"
      OBVIOUS
    <3> HIDE DEF a
    <3>3. QED BY <1>1, <1>2, <3>1, <3>2 DEF Codes
  <2>2. CASE HandleResourceCheck(m) /\ hasResource(resOffer, m.res)
    <3> DEFINE a == [kind |-> "packages", res |-> resOffer.version]
    <3>1. net' \subseteq net \cup {a} /\ device' = device
      BY <2>2, ReplyAdds DEF HandleResourceCheck
    <3>2. a.kind # "check"
      OBVIOUS
    <3> HIDE DEF a
    <3>3. QED BY <1>1, <1>2, <3>1, <3>2 DEF Codes
  <2>3. CASE HandleCheck(m) /\ ~hasUpdate(offer, m.code)
    BY <1>3, <2>3, RestKept DEF HandleCheck
  <2>4. CASE HandleResourceCheck(m) /\ ~hasResource(resOffer, m.res)
    BY <1>3, <2>4, RestKept DEF HandleResourceCheck
  <2>5. CASE HandleHeartbeat(m) \/ HandleEvent(m) \/ Lose(m)
    BY <1>3, <2>5, RestKept DEF HandleHeartbeat, HandleEvent, Lose
  <2>6. QED BY <1>7, <2>1, <2>2, <2>3, <2>4, <2>5
<1>8. CASE ChangeOffer \/ ChangeResOffer \/ Restart \/ UNCHANGED vars
  BY <1>3, <1>8 DEF ChangeOffer, ChangeResOffer, Restart, vars
<1>9. QED BY <1>4, <1>6, <1>7, <1>8 DEF Next

(* However old the check that is answered, a device that is told "no       *)
(* update" runs the offered version or a later one (hasUpdate).            *)
THEOREM NothingWithheldHolds == Spec => NothingWithheld
<1>1. Init => NotAhead
  BY DEF Init, NotAhead
<1>2. TypeInv /\ NotAhead =>
          \A m \in net : HandleCheck(m) /\ ~hasUpdate(offer, m.code) =>
              device.code >= offer.code
  <2> SUFFICES ASSUME TypeInv, NotAhead, NEW m \in net, HandleCheck(m),
                      ~hasUpdate(offer, m.code)
               PROVE  device.code >= offer.code
    OBVIOUS
  <2>1. m.code \in Codes
    BY KindType DEF HandleCheck
  <2>2. m.code \in Int /\ offer.code \in Int /\ device.code \in Int /\ m.code <= device.code
    BY <2>1, OffersAssumption DEF TypeInv, TypeOK, NotAhead, HandleCheck, Codes
  <2>3. QED BY <2>2 DEF hasUpdate
<1>3. QED
  BY <1>1, <1>2, InitTypeInv, NextType, NextNotAhead, PTL DEF Spec, NothingWithheld
=============================================================================
