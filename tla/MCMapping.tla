----------------------------- MODULE MCMapping -----------------------------
(* Mapping for TLC.  Some files exercise the rules of loading and          *)
(* validation with entries that convert nothing; the others have a single  *)
(* entry, in both sections, for each kind of conversion.                   *)
EXTENDS Mapping

NoTransform == [op |-> "passthrough", scale |-> <<1, 1>>, offset |-> FloatVal(0), gt |-> 0,
                high |-> IntVal(Unit), low |-> IntVal(0), map |-> <<>>]
Linear(scale, offset) == [NoTransform EXCEPT !.op = "linear", !.scale = scale, !.offset = offset]
Threshold(gt, high, low) == [NoTransform EXCEPT !.op = "threshold", !.gt = gt, !.high = high, !.low = low]
Enum(map) == [NoTransform EXCEPT !.op = "enum", !.map = map]

Plain(namespace, signal, vss, allowAdd) ==
    [shape |-> "sound", namespace |-> namespace, signal |-> signal, vss |-> vss, type |-> "float",
     transform |-> NoTransform, range |-> <<>>, allowAdd |-> allowAdd]
Converting(type, transform, range) ==
    [Plain("body", <<"Lamp", "left">>, "Left", TRUE) EXCEPT !.type = type, !.transform = transform, !.range = range]

(* Two signals of one frame, and one of a frame in another namespace.      *)
Left == Plain("body", <<"Lamp", "left">>, "Left", TRUE)
Right == Plain("body", <<"Lamp", "right">>, "Right", FALSE)
Speed == Plain("power", <<"Motor", "speed">>, "Speed", TRUE)
LeftAgain == Plain("body", <<"Lamp", "left">>, "Speed", TRUE)
Bare == [Left EXCEPT !.shape = "malformed"]
OddKey == [Right EXCEPT !.shape = "oddKey"]

File(toVss, toCan) == [s \in Sections |-> IF s = "to_vss" THEN toVss ELSE toCan]

MCRuleFiles ==
    {File(x, y) : x \in {<<>>, <<Bare>>, <<Left, LeftAgain, Speed>>, <<Speed, LeftAgain, Left>>,
                         <<LeftAgain, Left, Right>>, <<Bare, Left>>, <<Left, OddKey>>},
                  y \in {<<>>, <<Bare, Bare>>, <<Left, Right>>, <<Right, Left>>, <<Right>>, <<Speed, Right>>}}

One == IntVal(Unit)
Two == IntVal(2 * Unit)
MCConversions ==
    {Converting(type, NoTransform, <<>>) : type \in Types}
    \cup {Converting(type, Linear(<<2, 1>>, One), <<>>) : type \in Types}
    \cup {Converting("int", Linear(<<1, 2>>, IntVal(0)), <<0, Unit>>),
          Converting("float", Linear(<<-2, 1>>, One), <<>>),
          Converting("float", Linear(<<0, 1>>, IntVal(0)), <<>>),
          Converting("float", Linear(<<1, 1>>, NaN), <<>>),
          Converting("float", Linear(<<1, 1>>, NaN), <<0, Unit>>),
          Converting("float", NoTransform, <<0, Unit>>),
          Converting("float", NoTransform, <<Unit, 0>>),
          Converting("boolean", Threshold(0, Two, IntVal(0)), <<>>),
          Converting("float", Threshold(0, Two, IntVal(0)), <<>>),
          Converting("boolean", Threshold(0, Two, NaN), <<>>),
          Converting("boolean", Threshold(0, None, IntVal(0)), <<>>),
          Converting("boolean", Threshold(0, None, List), <<0, Unit>>)}
    \cup {Converting("string", Enum(<<<<None, Word("ON")>>, <<NaN, Word("OFF")>>>>), range) :
            range \in {<<>>, <<0, Unit>>}}
    \cup {Converting("string", Enum(map), <<>>) :
            map \in {<<>>, <<<<IntVal(0), Word("OFF")>>, <<One, Word("ON")>>>>,
                     <<<<IntVal(0), BoolVal(FALSE)>>>>,
                     <<<<IntVal(0), Word("ON")>>, <<One, Word("ON")>>>>}}
    \cup {Converting("boolean", Enum(map), <<>>) :
            map \in {<<<<One, BoolVal(FALSE)>>, <<IntVal(0), BoolVal(TRUE)>>>>,
                     <<<<IntVal(0), Word("true")>>, <<One, BoolVal(TRUE)>>>>,
                     <<<<IntVal(0), BoolVal(TRUE)>>, <<One, One>>>>,
                     <<<<IntVal(0), List>>>>}}
    \cup {Converting("int", Enum(<<<<IntVal(0), One>>, <<One, FloatVal(2)>>>>), <<>>)}
MCConversionFiles == {File(<<e>>, <<e>>) : e \in MCConversions}
MCFiles == MCRuleFiles \cup MCConversionFiles

Lamp == [namespace |-> "body", name |-> "Lamp", signals |-> {<<"Lamp", "left">>, <<"Lamp", "right">>},
         cyclic |-> TRUE, sent |-> FALSE]
OldLamp == [Lamp EXCEPT !.signals = {<<"", "left">>, <<"", "right">>}, !.sent = TRUE]
Motor == [namespace |-> "power", name |-> "Motor", signals |-> {<<"Motor", "speed">>}, cyclic |-> FALSE, sent |-> FALSE]
HalfLamp == [Lamp EXCEPT !.signals = {<<"Lamp", "left">>}]
MCVehicles == {{Lamp, Motor}, {OldLamp, Motor}, {HalfLamp, [Motor EXCEPT !.signals = {}]}}
MCCatalogs == {{"Left", "Right", "Speed"}, {"Left", "Speed"}}
MCValues == {IntVal(0), One, Two, FloatVal(Unit), FloatVal(Unit \div 2), NaN, BoolVal(TRUE), Word("ON"),
             Word("true"), Decimal(Unit, "int"), List, None}
=============================================================================
