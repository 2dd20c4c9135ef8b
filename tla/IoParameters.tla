---------------------------- MODULE IoParameters ----------------------------
(* The parameters of an I/O simulator (io/IoParameters.cpp): what an option  *)
(* changes, and the protocol, the predictor and the simulator built from     *)
(* them (IoSimulator.cpp, PredictionMethodFactory.cpp).                      *)
EXTENDS SequencesExt

CONSTANT MaxTokens    \* bound: a text is split into at most this many pieces (100 and 10)

Option(a, v) == [attr |-> a, value |-> v]

\* Both splitters stop at the bound and then forget the piece they read last.
Pieces(text) == IF Len(text) < MaxTokens THEN Len(text) ELSE MaxTokens - 1

\* Methods of prediction, and the types of the factory they select.
Methods == {"avg", "median", "sampling", "min", "max", "gsl", "cmean", "linregr", "arburg",
            "aryulwalk", "markov", "none", "replay"}

NoPredictor == [level |-> "not created"]

setIoDefaults ==
  [method |-> "avg", level |-> "invpoint", buffer |-> 16, protocol |-> "normal",
   excluder |-> "none", recognizer |-> FALSE, import |-> FALSE, model |-> "none",
   logging |-> FALSE, local |-> FALSE, predictor |-> NoPredictor]

\* A name that is no protocol leaves none: the pointer becomes NULL.
parseIoPolicy(v) == IF v \in {"serial", "strict", "lax", "normal", "none"} THEN v ELSE "NULL"

\* A name that is no level changes nothing.
parseIoLevel(p, v) ==
  [p EXCEPT !.level = IF v \in {"global", "invpoint", "ioop", "none"} THEN v ELSE @]

parseRandomIoRecognition(rate) == IF rate = 0 THEN "all" ELSE "random"

\* What an I/O option changes, whether it is accepted or not.
setIoValue(p, o) ==
  CASE o.attr = "io" -> [p EXCEPT !.protocol = parseIoPolicy(o.value)]
    [] o.attr = "iopred" -> [p EXCEPT !.method = o.value]
    [] o.attr = "iolevel" -> parseIoLevel(p, o.value)
    [] o.attr = "iobuffer" -> [p EXCEPT !.buffer = o.value]
    [] o.attr = "iomodel" -> [p EXCEPT !.model = o.value]
    [] o.attr = "ioimport" -> [p EXCEPT !.import = TRUE]
    [] o.attr = "ioexclude" -> [p EXCEPT !.excluder = parseRandomIoRecognition(o.value)]
    [] o.attr = "iodisregard" -> [p EXCEPT !.excluder = "all"]
    [] o.attr = "iothreshold" -> [p EXCEPT !.recognizer = TRUE]
    [] OTHER -> p

IoAttributes == {"io", "iopred", "iolevel", "iobuffer", "iomodel", "ioimport", "ioexclude",
                 "iodisregard", "iothreshold"}

\* What setValue returns: any name of a method will do.
IoAccepted(o) ==
  /\ o.attr \in IoAttributes
  /\ o.attr = "io" => parseIoPolicy(o.value) # "NULL"
  /\ o.attr = "iolevel" => o.value \in {"global", "invpoint", "ioop", "none"}
  /\ o.attr = "iobuffer" => o.value > 0

\* The parameters of a category, from a text of their own: a wrong option is
\* reported, and keeps its effect.
IoParametersFrom(text) == FoldLeft(setIoValue, setIoDefaults, SubSeq(text, 1, Pieces(text)))

setLoggingBehaviour(p, global, local) == [p EXCEPT !.logging = global, !.local = local]

(***************************************************************************)
(* What is built                                                           *)
(***************************************************************************)
\* The types a factory may have: an unknown name leaves the field as it was
\* allocated.
setPredictionMethod(name) == IF name \in Methods THEN {name} ELSE Methods

\* Fitted histograms need measurements to import.
getPredictionMethod(type, import) == IF type = "gsl" /\ ~import THEN "replay" ELSE type

PredictionMethodFactory(p) ==
  [methods |-> {getPredictionMethod(t, p.import) : t \in setPredictionMethod(p.method)},
   buffer |-> p.buffer, local |-> p.local, import |-> p.import]

createPredictor(p) ==
  [level |-> p.level, factory |-> PredictionMethodFactory(p), logging |-> p.logging,
   excluder |-> p.excluder, recognizer |-> p.recognizer]

\* The predictor is built once, whatever the parameters become afterwards.
getIoPredictor(p) == IF p.predictor = NoPredictor THEN createPredictor(p) ELSE p.predictor

\* With a filter, what it leaves out is taken one by one, the rest as asked for.
getIoProtocol(p) ==
  IF p.excluder = "none" /\ ~p.recognizer THEN <<p.protocol>> ELSE <<"serial", p.protocol>>

\* The simulator, and the parameters with the predictor they keep.
create(p) ==
  IF p.model # "none"
  THEN [kind |-> "network", model |-> p.model, logging |-> p.logging]
  ELSE [kind |-> "simple", protocol |-> getIoProtocol(p), predictor |-> getIoPredictor(p)]

Created(p) == IF p.model # "none" THEN p ELSE [p EXCEPT !.predictor = getIoPredictor(p)]

=============================================================================
