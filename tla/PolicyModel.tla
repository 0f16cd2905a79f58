----------------------------- MODULE PolicyModel -----------------------------
(***************************************************************************)
(* How the policy process settles what its model is: the parameters it     *)
(* reads (policy_server.cpp), the constructors of OnnxRuntime and          *)
(* PolicyModel (src/policy), and the inference they prepare.  The shape of *)
(* the input comes from four places that may contradict each other, the    *)
(* tensor, the layout signature, two metadata keys and the parameters, and *)
(* any of them may be missing.  One action is one stage of the             *)
(* constructors; an exception at any of them ends the process.             *)
(*                                                                         *)
(* A size of 0 is one that is not given and -1 one that cannot be read; a  *)
(* tensor dimension of -1 is dynamic.                                      *)
(***************************************************************************)
EXTENDS Parameters, SequencesExt

CONSTANTS Absent,   \* metadata that is not there
          Huge,     \* a double beyond float32 and int64
          Families  \* sets of pairs of a model file and the parameters of the node

Types == {"mlp", "transformer", "generic"}

(* A file: [inputs : of the session in its order, [name, element, shape],
            outputs : likewise,
            type : rmcs_model_type, history : rmcs_history_length,
            frame : rmcs_obs_frame_size,
            layout : rmcs_obs_layout, Absent or [v3, history, dims],
            actions_layout : rmcs_actions_layout or Absent,
            mean, deviation : the numbers of rmcs_obs_mean and _std or Absent,
            obs_clip, action_clip : a number or Absent]
   Given:  [parameters : see Parameters, extra_inputs : name -> <<type, values>>] *)
Tensors == [name : STRING, element : STRING, shape : Seq(Int)]
NumberLists == Seq(Int \cup {Infinite, NaN})

IsFile(f) ==
    /\ f.inputs \in Seq(Tensors) /\ f.outputs \in Seq(Tensors)
    /\ f.type \in STRING /\ f.history \in Int /\ f.frame \in Int
    /\ f.layout # Absent => f.layout \in [v3 : BOOLEAN, history : Int, dims : Seq(Int)]
    /\ f.mean # Absent => f.mean \in NumberLists
    /\ f.deviation # Absent => f.deviation \in NumberLists

ASSUME CasesAssumption ==
    \A cases \in Families : \A case \in cases :
        /\ DOMAIN case = {"file", "given"} /\ IsFile(case.file)
        /\ \A name \in DOMAIN case.given.parameters : IsParameter(case.given.parameters[name])

VARIABLES
    phase,      \* the next stage, "ready", or "refused" after an exception
    file, given,
    params,     \* PolicyModel::Config
    model,      \* what has been settled
    inference   \* the last run(): [result : "none", "rejected" or "answered",
                \* tensors : what it gave to the session]

vars == <<phase, file, given, params, model, inference>>

Unsettled == [type |-> "", sequence |-> 0, feature |-> 0, observation |-> 0, shape |-> <<>>,
              constants |-> <<>>, constant_slot |-> <<>>, output_size |-> 0, layout_hash |-> <<>>,
              mean |-> <<>>, deviation |-> <<>>, obs_clip |-> Absent, action_clip |-> Absent]

Init ==
    /\ phase = "parameters"
    /\ \E cases \in Families : \E case \in cases : file = case.file /\ given = case.given
    /\ params = <<>> /\ model = Unsettled
    /\ inference = [result |-> "none", tensors |-> <<>>]

\* A stage of the constructors: it goes on if all its checks pass.
Stage(from, checks, to, settled) ==
    /\ phase = from
    /\ IF checks THEN phase' = to /\ model' = settled
       ELSE phase' = "refused" /\ UNCHANGED model
    /\ UNCHANGED <<file, given, params, inference>>

Product(sizes) == FoldLeft(LAMBDA a, b : a * b, 1, sizes)
Sum(sizes) == FoldLeft(LAMBDA a, b : a + b, 0, sizes)

\* The first size that is given.
FirstOf(sizes) ==
    LET Given == {i \in DOMAIN sizes : sizes[i] # 0}
    IN  IF Given = {} THEN 0 ELSE sizes[Min(Given)]

Agree(a, b) == a = 0 \/ b = 0 \/ a = b

----------------------------------------------------------------------------
(* The parameters: the constructor of PolicyServer.                        *)

\* A size may be given, but has to be positive.
PositiveOk(name) ==
    IntegerOk(given.parameters, name) /\ IntegerOr(given.parameters, name, 1) >= 1

SizeParameters == {"sequence_length", "feature_size", "rl_obs_size", "rl_action_size"}

ExtraInputOk(extra) ==
    /\ extra[1] \in {"doubles", "integers", "bools"} /\ extra[2] # <<>>
    /\ extra[1] = "doubles" => {Infinite, NaN} \cap ToSet(extra[2]) = {}

\* A clip of less than 0 is none.
ClipParameter(name) ==
    IF ValueOr(given.parameters, name, -1) >= 0 THEN given.parameters[name][2] ELSE Absent

Config ==
    LET Size(name) == IntegerOr(given.parameters, name, 0)
    IN  [input_name |-> ValueOr(given.parameters, "input_name", "obs"),
         output_name |-> ValueOr(given.parameters, "output_name", "actions"),
         model_type |-> ValueOr(given.parameters, "model_type", "auto"),
         sequence_length |-> Size("sequence_length"), feature_size |-> Size("feature_size"),
         observation_size |-> Size("rl_obs_size"), action_size |-> Size("rl_action_size"),
         extra |-> given.extra_inputs,
         normalization_from_metadata |-> ValueOr(given.parameters, "normalization_from_metadata", TRUE),
         obs_clip |-> ClipParameter("obs_clip"), action_clip |-> ClipParameter("action_clip")]

ReadParameters ==
    /\ phase = "parameters"
    /\ IF /\ \A name \in {"rl_base", "rl_model_path", "input_name", "output_name", "model_type"} :
                StringOk(given.parameters, name)
          /\ ValueOr(given.parameters, "rl_model_path", "") # ""
          /\ \A name \in SizeParameters : PositiveOk(name)
          /\ \A name \in DOMAIN given.extra_inputs :
                name # "" /\ ExtraInputOk(given.extra_inputs[name])
          /\ BoolOk(given.parameters, "normalization_from_metadata")
          /\ NumberOk(given.parameters, "obs_clip") /\ NumberOk(given.parameters, "action_clip")
       THEN phase' = "tensors" /\ params' = Config
       ELSE phase' = "refused" /\ UNCHANGED params
    /\ UNCHANGED <<file, given, model, inference>>

----------------------------------------------------------------------------
(* The tensors and the type of the model. *)

\* The index of the primary input, 0 if there is none.
Primary == SelectInSeq(file.inputs, LAMBDA input : input.name = params.input_name)
Input == file.inputs[Primary].shape
Output == file.outputs[1].shape
Rank == Len(Input)
BatchOk(shape) == Len(shape) < 2 \/ shape[1] \in {1, -1}

CheckTensors ==
    Stage("tensors",
          /\ params.model_type \in Types \cup {"auto"}
          /\ Len(file.outputs) = 1 /\ Primary # 0 /\ file.outputs[1].name = params.output_name
          /\ {file.inputs[Primary].element, file.outputs[1].element} = {"float"}
          /\ Rank \in 1..3 /\ BatchOk(Input)
          /\ Len(Output) \in 1..3 /\ BatchOk(Output),
          "type", model)

ResolvedType ==
    IF params.model_type # "auto" THEN params.model_type
    ELSE IF file.type # "" THEN file.type
    ELSE CASE Rank = 1 -> "generic" [] Rank = 2 -> "mlp" [] Rank = 3 -> "transformer"

SettleType ==
    Stage("type",
          /\ file.type \in Types \cup {""}
          /\ params.model_type \in {"mlp", "transformer"} => file.type \in {"", params.model_type}
          /\ ResolvedType = "mlp" => Rank \in {2, 3}
          /\ ResolvedType = "transformer" => Rank = 3,
          "declared", [model EXCEPT !.type = ResolvedType])

----------------------------------------------------------------------------
(* The shape of the input. *)

\* layout_dimensions(): a signature of another version counts as none.
HasLayout == file.layout # Absent /\ file.layout.v3
LayoutHistory == IF HasLayout THEN file.layout.history ELSE 0
LayoutFrame == IF HasLayout THEN Sum(file.layout.dims) ELSE 0
LayoutWellFormed ==
    HasLayout => /\ file.layout.history > 0 /\ file.layout.dims # <<>>
                 /\ \A i \in DOMAIN file.layout.dims : file.layout.dims[i] > 0

\* Seeded fault: the parameters win over the layout without a comparison.
ParametersWin == Agree(file.history, LayoutHistory) /\ Agree(file.frame, LayoutFrame)

\* What is declared beside the tensor is compared with the layout only, not among itself.
LayoutAgrees ==
    /\ Agree(file.history, LayoutHistory) /\ Agree(params.sequence_length, LayoutHistory)
    /\ Agree(file.frame, LayoutFrame) /\ Agree(params.feature_size, LayoutFrame)
    /\ Agree(params.observation_size, LayoutHistory * LayoutFrame)

SettleDeclared ==
    Stage("declared",
          /\ file.history >= 0 /\ file.frame >= 0
          /\ LayoutWellFormed
          /\ Rank = 3 => HasLayout \/ (params.sequence_length # 0 /\ params.feature_size # 0)
          /\ LayoutAgrees,
          "input",
          [model EXCEPT
            !.sequence = FirstOf(<<params.sequence_length, file.history, LayoutHistory>>),
            !.feature = FirstOf(<<params.feature_size, file.frame, LayoutFrame>>),
            !.observation = FirstOf(<<params.observation_size, LayoutHistory * LayoutFrame>>)])

\* A dimension of the tensor, 0 if it is dynamic.
Dimension(i) == IF Input[i] > 0 THEN Input[i] ELSE 0

FlatSize == FirstOf(<<Dimension(Rank), model.observation>>)

SettleFlatInput ==
    /\ phase = "input" /\ Rank < 3
    /\ Stage("input",
             FlatSize # 0 /\ Agree(Dimension(Rank), model.observation),
             "constants",
             [model EXCEPT !.sequence = 1, !.feature = FlatSize,
                           !.shape = IF Rank = 1 THEN <<FlatSize>> ELSE <<1, FlatSize>>])

\* A missing factor of the observation size is its quotient by the other one.
Quotient(factor) ==
    IF factor # 0 /\ model.observation % factor = 0 THEN model.observation \div factor ELSE 0

Feature == FirstOf(<<model.feature, Dimension(3)>>)
Sequence == FirstOf(<<model.sequence, Dimension(2), Quotient(Feature)>>)
FeatureOf(sequence) == FirstOf(<<Feature, Quotient(sequence)>>)

\* Seeded fault: a tensor that contradicts what is declared is not noticed.
SizeOnly(sequence, feature) ==
    sequence # 0 /\ feature # 0 /\ Agree(sequence * feature, model.observation)

SequenceFits(sequence, feature) ==
    /\ sequence # 0 /\ feature # 0
    /\ Agree(Dimension(2), sequence) /\ Agree(Dimension(3), feature)
    /\ Agree(sequence * feature, model.observation)

SettleSequenceInput ==
    /\ phase = "input" /\ Rank = 3
    /\ LET feature == FeatureOf(Sequence)
       IN  Stage("input", SequenceFits(Sequence, feature), "constants",
                 [model EXCEPT !.sequence = Sequence, !.feature = feature,
                               !.shape = <<1, Sequence, feature>>])

SettleInput == SettleFlatInput \/ SettleSequenceInput

----------------------------------------------------------------------------
(* The other inputs, the output, and the normalization. *)

Unbatched(shape) == IF Len(shape) >= 2 THEN Tail(shape) ELSE shape

\* Seeded fault: a constant without its batch dimension.
ShapeUnbatched(shape) == Unbatched(shape)
ConstantShape(shape) == IF Len(shape) >= 2 THEN <<1>> \o Unbatched(shape) ELSE shape

\* Whether the values of a parameter can become elements of a tensor: a double converts
\* to float32 if it stays finite, to int64 if it is integral and in range.
ConvertsTo(extra, element) ==
    CASE element = "float" -> extra[1] \in {"doubles", "integers"} /\ Huge \notin ToSet(extra[2])
      [] element = "int64" -> \/ extra[1] = "integers"
                              \/ extra[1] = "doubles" /\ {Huge, Fraction} \cap ToSet(extra[2]) = {}
      [] element = "bool"  -> extra[1] = "bools"
      [] OTHER             -> FALSE

ConstantFits(input, extra) ==
    LET dims == Unbatched(input.shape)
    IN  /\ Len(input.shape) \in 1..3 /\ BatchOk(input.shape)
        /\ \A i \in DOMAIN dims : dims[i] > 0
        /\ Len(extra[2]) = Product(dims)
        /\ ConvertsTo(extra, input.element)

\* The tensor of a constant; a dynamic batch becomes a batch of one.
Constant(input) ==
    [element |-> input.element, count |-> Product(Unbatched(input.shape)),
     shape |-> ConstantShape(input.shape)]

\* The other inputs, by their indices in the session.
Others == [i \in 1..Len(file.inputs) - 1 |-> IF i < Primary THEN i ELSE i + 1]

BindConstants ==
    Stage("constants",
          /\ DOMAIN params.extra = {file.inputs[Others[k]].name : k \in DOMAIN Others}
          /\ \A k \in DOMAIN Others :
                ConstantFits(file.inputs[Others[k]], params.extra[file.inputs[Others[k]].name]),
          "output",
          [model EXCEPT !.constants = [k \in DOMAIN Others |-> Constant(file.inputs[Others[k]])],
                        !.constant_slot = [i \in DOMAIN file.inputs |->
                            IF i = Primary THEN 0 ELSE IF i < Primary THEN i ELSE i - 1]])

OutputDims == Unbatched(Output)
OutputDynamic == \E i \in DOMAIN OutputDims : OutputDims[i] <= 0

\* Seeded fault: the concrete dimensions of a dynamic output taken for its size.
ConcreteSize == Product(SelectSeq(OutputDims, LAMBDA dim : dim > 0))

OutputSize == IF OutputDynamic THEN params.action_size ELSE Product(OutputDims)

SettleOutput ==
    Stage("output",
          IF OutputDynamic THEN params.action_size # 0
                           ELSE Agree(params.action_size, OutputSize),
          "identity", [model EXCEPT !.output_size = OutputSize])

InputSize == Product(model.shape)

\* The layout hash of PolicyModel, over both signatures and both sizes; <<>> stands for 0.
SettleIdentity ==
    Stage("identity", TRUE, "normalization",
          [model EXCEPT !.layout_hash =
              IF Absent \in {file.layout, file.actions_layout} THEN <<>>
              ELSE <<file.layout, file.actions_layout, InputSize, model.output_size>>])

\* The numbers of a metadata text have to be finite.
Numbers(text) == IF text = Absent THEN <<>> ELSE text
Readable(numbers) == {Infinite, NaN} \cap ToSet(numbers) = {}
ClipReadable(clip) == clip # Absent => clip \notin {Infinite, NaN} /\ clip > 0

ClipOf(parameter, metadata) ==
    IF parameter # Absent THEN parameter
    ELSE IF params.normalization_from_metadata THEN metadata ELSE Absent

\* Seeded fault: one size compared for both.
MeanFits(mean, deviation) == Len(mean) = InputSize

NormalizationFits(mean, deviation) ==
    Len(mean) = InputSize /\ Len(deviation) = InputSize

LoadNormalization ==
    Stage("normalization",
          params.normalization_from_metadata =>
            /\ (file.mean = Absent) <=> (file.deviation = Absent)
            /\ file.mean # Absent =>
                /\ Readable(file.mean) /\ Readable(file.deviation)
                /\ NormalizationFits(file.mean, file.deviation)
                /\ \A i \in DOMAIN file.deviation : file.deviation[i] > 0
            /\ ClipReadable(file.obs_clip) /\ ClipReadable(file.action_clip),
          "topics",
          [model EXCEPT
            !.mean = IF params.normalization_from_metadata THEN Numbers(file.mean) ELSE <<>>,
            !.deviation = IF params.normalization_from_metadata THEN Numbers(file.deviation) ELSE <<>>,
            !.obs_clip = ClipOf(params.obs_clip, file.obs_clip),
            !.action_clip = ClipOf(params.action_clip, file.action_clip)])

\* What is left of the constructor of PolicyServer.
SetUpTopics ==
    Stage("topics",
          /\ BoolOk(given.parameters, "publish_status")
          /\ ValueOr(given.parameters, "publish_status", FALSE) => NumberOk(given.parameters, "status_rate"),
          "ready", model)

----------------------------------------------------------------------------
(* run().  An observation is its size and the worst of its values after    *)
(* normalization; what the session makes of the tensors is up to it.       *)

Observations == [size : {InputSize, InputSize + 1}, worst : {"finite", "infinite", "nan"}]

\* Clipping makes an infinite value finite and leaves a NaN.
Clipped(worst) == IF worst = "infinite" /\ model.obs_clip # Absent THEN "finite" ELSE worst

\* The tensors of OnnxRuntime::run(), in the order of the session.
SessionTensors ==
    [i \in DOMAIN file.inputs |->
        IF model.constant_slot[i] = 0
        THEN [element |-> "float", count |-> InputSize, shape |-> model.shape]
        ELSE model.constants[model.constant_slot[i]]]

Infer ==
    /\ phase = "ready"
    /\ \E observation \in Observations :
        IF observation.size # InputSize \/ Clipped(observation.worst) # "finite"
        THEN inference' = [result |-> "rejected", tensors |-> <<>>]
        ELSE \E result \in {"rejected", "answered"} : inference' = [result |-> result, tensors |-> SessionTensors]
    /\ UNCHANGED <<phase, file, given, params, model>>

Next ==
    \/ ReadParameters \/ CheckTensors \/ SettleType \/ SettleDeclared \/ SettleInput
    \/ BindConstants \/ SettleOutput \/ SettleIdentity \/ LoadNormalization \/ SetUpTopics
    \/ Infer

Spec == Init /\ [][Next]_vars

----------------------------------------------------------------------------
(* Properties. *)

Ready == phase = "ready"

\* onnx_runtime.cpp:440-471 and README.md:66-70: every input of the session gets a tensor
\* of its own type and rank, with every dimension the session fixes and as many elements
\* as its shape says, wherever its shape was taken from and wherever the primary input
\* stands among the others; and nothing that was declared is silently unused.
EveryInputFed ==
    /\ inference.tensors # <<>> =>
        \A i \in DOMAIN file.inputs :
            LET input == file.inputs[i]
                tensor == inference.tensors[i]
            IN  /\ tensor.element = input.element
                /\ Len(tensor.shape) = Len(input.shape)
                /\ \A d \in DOMAIN input.shape :
                    /\ tensor.shape[d] > 0
                    /\ input.shape[d] > 0 => tensor.shape[d] = input.shape[d]
                /\ tensor.count = Product(tensor.shape)
    /\ Ready => DOMAIN given.extra_inputs \subseteq {file.inputs[i].name : i \in DOMAIN file.inputs}

\* README.md:81: whatever else is declared, the window the model takes is the one its
\* layout signature describes, in size and, for a sequence, in its split into frames; so
\* the sizes that enter the layout hash are those the bridge hashes for this signature.
WindowIsTheSigned ==
    Ready /\ HasLayout =>
        /\ InputSize = LayoutHistory * LayoutFrame
        /\ Rank = 3 => model.sequence = LayoutHistory /\ model.feature = LayoutFrame

\* on_observation() and the bridge compare the sizes of messages with those of the
\* model: a size named in the YAML, whatever a node takes for an integer, is the size the
\* model has, also with dynamic tensors.
SizesAsConfigured ==
    Ready => /\ ValueOr(given.parameters, "rl_obs_size", InputSize) = InputSize
             /\ ValueOr(given.parameters, "rl_action_size", model.output_size) = model.output_size
             /\ model.output_size > 0

\* run() indexes the mean and the deviation with every index of the observation as soon
\* as there is a mean, and divides by the deviation.
NormalizationInRange ==
    Ready /\ model.mean # <<>> =>
        /\ Len(model.mean) = InputSize /\ Len(model.deviation) = InputSize
        /\ \A i \in 1..InputSize : model.deviation[i] # 0

\* README.md:83-84: the declared lengths of a sequence are "refused if inconsistent".
DeclaredLengthsAgree ==
    Ready /\ Rank = 3 =>
        /\ Agree(file.history, model.sequence)
        /\ Agree(file.frame, model.feature)
=============================================================================
