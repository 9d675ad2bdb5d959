------------------------- MODULE ModelConfiguration -------------------------
(***************************************************************************)
(* The providers' configuration: the file modelproviders.json, the tool    *)
(* that edits it (modelconfigtool), and the daemon, which reads the file   *)
(* anew for every request (ModelProvidersConfig), once to choose the       *)
(* provider and once more to configure the interface.                      *)
(*                                                                         *)
(* The file keeps the parameters of a provider once; the tool keeps them   *)
(* with every model of the provider and merges them on saving.             *)
(***************************************************************************)
EXTENDS Naturals, SequencesExt

CONSTANTS
    ProviderOrder,  \* the provider ids, in the order of a QJsonObject's keys
    TypeOrder,      \* the model types (capabilities), in the order of a QMap
    KeyText,        \* what a user may type as a key
    ModelText,      \* what a user may type as a model's name
    StartContent,   \* the configurations the file may have at first
    MaxChanges      \* bound: saves of the tool

Provider == Range(ProviderOrder)
Type == Range(TypeOrder)
NoName == "none"

\* "Model" is the name addModel invents; "model" is the one the file lists.
Param == {"api_key", "api_url", "Model", "model"}
InventedName == "default model"
TextOf(k) ==
    CASE k = "api_key" -> KeyText
      [] k = "api_url" -> {"url"}
      [] k = "model" -> ModelText
      [] k = "Model" -> {InventedName}

PartialFunctions(S, T) == UNION {[D -> T] : D \in SUBSET S}
NoParams == [x \in {} |-> x]

\* The elements of s that are in S, in their order.
Filtered(s, S) ==
    LET kept[n \in 0..Len(s)] ==
            IF n = 0 THEN <<>>
            ELSE IF s[n] \in S THEN Append(kept[n - 1], s[n]) ELSE kept[n - 1]
    IN  kept[Len(s)]

\* A file that was read as an object: defaults per type, and for every
\* provider its own parameters and its model of every type.
EmptyContent == [defaults |-> NoParams, providers |-> NoParams]
File(state, content) == [state |-> state, content |-> content]

IsContent(c) ==
    /\ DOMAIN c.defaults \subseteq Type /\ Range(c.defaults) \subseteq Provider
    /\ DOMAIN c.providers \subseteq Provider
    /\ \A p \in DOMAIN c.providers :
        /\ DOMAIN c.providers[p].keys \subseteq Param
        /\ \A k \in DOMAIN c.providers[p].keys : c.providers[p].keys[k] \in TextOf(k)
        /\ DOMAIN c.providers[p].models \subseteq Type
        /\ \A t \in DOMAIN c.providers[p].models : c.providers[p].models[t] \in ModelText

\* Keys are told apart from addresses, and both from what was left out; a file
\* that is delivered lists no provider without a model.
ASSUME ConfigurationAssumption ==
    /\ ProviderOrder \in Seq({"doubao", "ernie", "modelhub", "openai"})
    /\ TypeOrder \in Seq({"Chat", "FunctionCalling", "SpeechToText", "TextToSpeech",
                            "ImageRecognition", "OCR"})
    /\ IsInjective(ProviderOrder) /\ IsInjective(TypeOrder)
    /\ KeyText \cap {"", "url", NoName} = {} /\ ModelText \cap {"", NoName} = {}
    /\ \A c \in StartContent :
        IsContent(c) /\ \A p \in DOMAIN c.providers : DOMAIN c.providers[p].models # {}
    /\ MaxChanges \in Nat

VARIABLES
    file,      \* the file: "whole", "torn" (no JSON object) or "absent"; content
    first,     \* the content the file had at first
    tool,      \* "closed", "idle", "writing" (the file is truncated)
    root,      \* rootObject: the content last loaded or rendered
    models,    \* the tool's models, per type
    defaults,  \* defaultProviders
    edited,    \* the last edit: <<type, index, key>>, or <<>> after anything else
    changes,   \* saves so far
    request    \* a request of the daemon for an interface

configVars == <<file, first, tool, root, models, defaults, edited, changes, request>>

-----------------------------------------------------------------------------
(* The tool's conversions.                                                 *)

ParamsRead(keys, name) == [k \in {"model"} \cup DOMAIN keys |-> IF k = "model" THEN name ELSE keys[k]]

\* parseConfig: one model per provider and type, each with a copy of the
\* provider's parameters.
Parsed(content) ==
    [t \in Type |->
        LET listed == Filtered(ProviderOrder,
                {p \in DOMAIN content.providers : t \in DOMAIN content.providers[p].models})
            ModelOf(p) ==
                [provider |-> p,
                 params |-> ParamsRead(content.providers[p].keys, content.providers[p].models[t]),
                 enabled |-> t \in DOMAIN content.defaults /\ content.defaults[t] = p]
        IN  [i \in DOMAIN listed |-> ModelOf(listed[i])]]

AllModels(ms) == FlattenSeq([i \in DOMAIN TypeOrder |-> ms[TypeOrder[i]]])

\* The model that is met last decides a parameter.
LastWith(seq, p, k) ==
    LET found == {i \in DOMAIN seq : seq[i].provider = p /\ k \in DOMAIN seq[i].params}
    IN  seq[CHOOSE i \in found : \A j \in found : j <= i].params[k]

ParamsIn(seq, p) ==
    UNION {DOMAIN seq[i].params : i \in {j \in DOMAIN seq : seq[j].provider = p}}

\* saveConfig: a provider without models is not written, keys and all; a model
\* without "model" leaves no entry.
Rendered(ms, ds) ==
    LET all == AllModels(ms)
    IN  [defaults |-> ds,
         providers |->
            [p \in {all[i].provider : i \in DOMAIN all} |->
                [keys |-> [k \in ParamsIn(all, p) \ {"model"} |-> LastWith(all, p, k)],
                 models |-> [t \in {u \in Type : "model" \in ParamsIn(ms[u], p)} |->
                                LastWith(ms[t], p, "model")]]]]

\* getKnownParameters: what the dialog offers. "model" is always among them,
\* so the defaults of a provider the file does not know are never offered.
KnownParams(p) ==
    {"model"} \cup IF p \in DOMAIN root.providers THEN DOMAIN root.providers[p].keys ELSE {}

\* getProvidersForType: the providers the type has already, or any.
DialogProviders(t) ==
    LET listed == {models[t][i].provider : i \in DOMAIN models[t]}
    IN  IF listed # {} THEN listed ELSE Provider \ {"openai"}

\* What the dialog can return: a parameter left empty is not in it. Required
\* are those with "Key" or "Secret" in their name, which the daemon's parameters
\* ("api_key", "api_secret") do not have.
DialogModels(t) ==
    UNION {
        {[provider |-> p, params |-> f, enabled |-> TRUE] :
            f \in {g \in PartialFunctions(KnownParams(p), UNION {TextOf(k) : k \in Param}) :
                    \A k \in DOMAIN g : g[k] \in TextOf(k)}} :
        p \in DialogProviders(t)}

\* addModel and updateModel invent a "Model" for a model without one.
Validated(m) ==
    IF "Model" \in DOMAIN m.params THEN m
    ELSE [m EXCEPT !.params = [k \in {"Model"} \cup DOMAIN m.params |->
                                IF k = "Model" THEN InventedName ELSE m.params[k]]]

\* updateModelEnabledStatus.
WithMarks(seq, ds, t) ==
    [i \in DOMAIN seq |->
        [seq[i] EXCEPT !.enabled = (t \in DOMAIN ds /\ ds[t] = seq[i].provider)]]

WithDefault(ds, t, p) == [u \in {t} \cup DOMAIN ds |-> IF u = t THEN p ELSE ds[u]]
WithoutDefault(ds, t) == [u \in DOMAIN ds \ {t} |-> ds[u]]

-----------------------------------------------------------------------------
(* The tool.                                                               *)

Load(content) ==
    /\ root' = content
    /\ models' = Parsed(content)
    /\ defaults' = content.defaults

Readable == file.state = "whole"

\* MainWindow: a file that cannot be read is replaced by the first save.
Start ==
    /\ tool = "closed"
    /\ tool' = "idle"
    /\ Load(file.content)
    /\ edited' = <<>>
    /\ UNCHANGED <<file, first, changes, request>>

\* openConfigFile: a file that cannot be read leaves everything as it is.
Open ==
    /\ tool = "idle" /\ Readable
    /\ Load(file.content)
    /\ edited' = <<>>
    /\ UNCHANGED <<file, first, tool, changes, request>>

\* The file changes; a request that has chosen its provider remembers it.
Replace(new) ==
    /\ file' = new
    /\ request' = IF request.at = "chosen" THEN [request EXCEPT !.changed = TRUE] ELSE request

\* QFile::open truncates.
Truncated == File("torn", EmptyContent)

\* saveConfig opens the file, which empties it, before it writes; when it
\* cannot be opened the tool keeps its models and says so.
Save(ms, ds, edit) ==
    /\ tool = "idle" /\ changes < MaxChanges
    /\ models' = ms /\ defaults' = ds
    /\ root' = Rendered(ms, ds)
    /\ changes' = changes + 1
    /\ \/ tool' = "writing" /\ edited' = edit /\ Replace(Truncated)
       \/ UNCHANGED <<tool, file, request>> /\ edited' = <<>>
    /\ UNCHANGED first

Write ==
    /\ tool = "writing"
    /\ Replace(File("whole", root))
    /\ tool' = "idle"
    /\ UNCHANGED <<first, root, models, defaults, edited, changes>>

SaveConfigFile == Save(models, defaults, <<>>)

AddModel(t) ==
    \E m \in DialogModels(t) :
        LET ds == IF t \in DOMAIN defaults THEN defaults ELSE WithDefault(defaults, t, m.provider)
            ms == Append(models[t], Validated(m))
        IN  Save([models EXCEPT ![t] = WithMarks(ms, ds, t)], ds, <<>>)

\* A mutant of updateModel works on a copy.
ReplaceCopy(ms, t, i, m) == ms
ReplaceModel(ms, t, i, m) == [ms EXCEPT ![t][i] = Validated(m)]

\* The other models of the type keep their marks, the default its provider.
EditModel(t, i) ==
    /\ i \in DOMAIN models[t]
    /\ \E m \in DialogModels(t) :
        Save(ReplaceModel(models, t, i, m), defaults,
             IF "api_key" \in DOMAIN m.params THEN <<t, i, m.params["api_key"]>> ELSE <<>>)

NextDefault(ds, t, left) ==
    IF left = <<>> THEN WithoutDefault(ds, t) ELSE WithDefault(ds, t, left[1].provider)

\* removeModel: the default goes to the first model left, when the last one of
\* the default provider is removed.
DeleteModel(t, i) ==
    /\ i \in DOMAIN models[t]
    /\ LET gone == models[t][i].provider
           left == RemoveAt(models[t], i)
           orphaned == /\ t \in DOMAIN defaults /\ defaults[t] = gone
                       /\ \A j \in DOMAIN left : left[j].provider # gone
           ds == IF orphaned THEN NextDefault(defaults, t, left) ELSE defaults
       IN  Save([models EXCEPT ![t] = IF orphaned /\ left # <<>> THEN WithMarks(left, ds, t) ELSE left],
                ds, <<>>)

SetAsDefaultModel(t, i) ==
    /\ i \in DOMAIN models[t]
    /\ LET ds == WithDefault(defaults, t, models[t][i].provider)
       IN  Save([models EXCEPT ![t] = WithMarks(models[t], ds, t)], ds, <<>>)

\* The tool is closed, or killed while it writes.
Close ==
    /\ tool # "closed"
    /\ tool' = "closed"
    /\ root' = EmptyContent /\ models' = [t \in Type |-> <<>>] /\ defaults' = NoParams
    /\ edited' = <<>>
    /\ UNCHANGED <<file, first, changes, request>>

-----------------------------------------------------------------------------
(* The daemon: ModelProvidersConfig on a content, and the providers.       *)

SupportsInterface(content, p, t) ==
    p \in DOMAIN content.providers /\ t \in DOMAIN content.providers[p].models

GetModelName(content, p, t) ==
    IF SupportsInterface(content, p, t) THEN content.providers[p].models[t] ELSE NoName

GetDefaultProvider(content, t) ==
    IF t \in DOMAIN content.defaults THEN content.defaults[t] ELSE NoName

\* A mutant finds the model of chats, whatever the type.
ChatModel(content, p, t) == GetModelName(content, p, "Chat")
ModelOfType(content, p, t) == content.providers[p].models[t]

\* getProviderConfig: the provider's parameters, over which the model of the
\* type is put when it has one.
GetProviderConfig(content, p, t) ==
    IF p \notin DOMAIN content.providers THEN NoParams
    ELSE LET keys == content.providers[p].keys
             named == IF SupportsInterface(content, p, t) THEN {"Model"} ELSE {}
         IN  [k \in named \cup DOMAIN keys |->
                IF k \in named THEN ModelOfType(content, p, t) ELSE keys[k]]

ValueOr(info, k, fallback) == IF k \in DOMAIN info THEN info[k] ELSE fallback

Interface(model, key, url) == [model |-> model, key |-> key, url |-> url]
NoInterface == Interface(NoName, NoName, NoName)

\* createFunctionCalling takes the key from the url and the url from the key.
OpenAIInterface(t, info) ==
    IF t \notin {"Chat", "FunctionCalling"} THEN NoInterface
    ELSE LET key == ValueOr(info, "api_key", "")
             url == ValueOr(info, "api_url", "")
         IN  IF t = "Chat" THEN Interface(ValueOr(info, "Model", ""), key, url)
             ELSE Interface(ValueOr(info, "Model", ""), url, key)

ErnieInterface(t, info) ==
    IF t \notin {"Chat", "FunctionCalling"} THEN NoInterface
    ELSE Interface(ValueOr(info, "Model", "ERNIE-Lite-8K"), ValueOr(info, "api_key", ""),
                   ValueOr(info, "api_url", ""))

DoubaoInterface(t, info) ==
    IF t \notin {"Chat", "ImageRecognition"} THEN NoInterface
    ELSE Interface(ValueOr(info, "Model", ""), ValueOr(info, "api_key", ""),
                   ValueOr(info, "api_url", ""))

\* A local model has a name and no key.
ModelhubInterface(t, info) ==
    IF t \notin {"Chat", "FunctionCalling"} \/ "Model" \notin DOMAIN info THEN NoInterface
    ELSE Interface(info["Model"], "", "")

CreateInterface(p, t, content) ==
    LET info == GetProviderConfig(content, p, t)
    IN  CASE p = "openai" -> OpenAIInterface(t, info)
          [] p = "ernie" -> ErnieInterface(t, info)
          [] p = "doubao" -> DoubaoInterface(t, info)
          [] p = "modelhub" -> ModelhubInterface(t, info)
          [] OTHER -> NoInterface

NoRequest == [at |-> "none"]

\* createProviderForInterface: the provider named in the parameters, or the
\* default of the type in the file as it is now.
ChooseProvider(t, named) ==
    /\ request.at = "none"
    /\ LET p == IF named # NoName THEN named ELSE GetDefaultProvider(file.content, t)
       IN  request' = IF p \in Provider
                      THEN [at |-> "chosen", type |-> t, provider |-> p, named |-> named # NoName,
                            served |-> SupportsInterface(file.content, p, t), changed |-> FALSE]
                      ELSE [at |-> "invalid"]
    /\ UNCHANGED <<file, first, tool, root, models, defaults, edited, changes>>

\* createInterface reads the file once more; a model in the request's
\* parameters replaces the one found (configureModelForInterface).
Configure(model) ==
    /\ request.at = "chosen"
    /\ LET made == CreateInterface(request.provider, request.type, file.content)
       IN  request' =
            IF made = NoInterface THEN [at |-> "invalid"]
            ELSE [at |-> "ready", type |-> request.type, provider |-> request.provider,
                  named |-> request.named,
                  served |-> request.served, changed |-> request.changed,
                  interface |-> IF model = NoName THEN made ELSE [made EXCEPT !.model = model]]
    /\ UNCHANGED <<file, first, tool, root, models, defaults, edited, changes>>

GiveBack ==
    /\ request.at \in {"ready", "invalid"}
    /\ request' = NoRequest
    /\ UNCHANGED <<file, first, tool, root, models, defaults, edited, changes>>

-----------------------------------------------------------------------------
ConfigInit ==
    /\ file \in {File("whole", c) : c \in StartContent} \cup {File("absent", EmptyContent)}
    /\ first = file.content
    /\ tool = "closed"
    /\ root = EmptyContent /\ models = [t \in Type |-> <<>>] /\ defaults = NoParams
    /\ edited = <<>>
    /\ changes = 0
    /\ request = NoRequest

ChangeModel ==
    \E t \in Type :
        \/ AddModel(t)
        \/ \E i \in DOMAIN models[t] : EditModel(t, i)
        \/ \E i \in DOMAIN models[t] : DeleteModel(t, i)
        \/ \E i \in DOMAIN models[t] : SetAsDefaultModel(t, i)

Work ==
    \/ Start \/ Open \/ SaveConfigFile \/ Write \/ Close
    \/ ChangeModel
    \/ \E t \in Type, named \in Provider \cup {NoName} : ChooseProvider(t, named)
    \/ \E model \in ModelText \cup {NoName} : Configure(model)

ConfigSpec == ConfigInit /\ [][Work \/ GiveBack]_configVars

-----------------------------------------------------------------------------
(* ModelInfoDBus, on the content it reads.                                 *)

\* buildModelObject: how a model is deployed goes by the provider's name.
ModelObject(p, t, name) ==
    [name |-> name, provider |-> p, capability |-> t,
     deployType |-> IF p = "modelhub" THEN "Local" ELSE "Cloud"]

\* The models of one provider, one entry per type.
ModelsOf(content, p) ==
    IF p \notin DOMAIN content.providers THEN <<>>
    ELSE LET types == Filtered(TypeOrder, DOMAIN content.providers[p].models)
         IN  [i \in DOMAIN types |->
                ModelObject(p, types[i], content.providers[p].models[types[i]])]

GetAllModels(content) ==
    FlattenSeq([i \in DOMAIN ProviderOrder |-> ModelsOf(content, ProviderOrder[i])])

OfCapability(s, t) == Filtered(s, {m \in Range(s) : m.capability = t})
OfName(s, name) == Filtered(s, {m \in Range(s) : m.name = name})

GetModelsForCapability(content, t) ==
    FlattenSeq([i \in DOMAIN ProviderOrder |->
        OfCapability(ModelsOf(content, ProviderOrder[i]), t)])

\* For every model of the provider, every type that names it.
GetModelsForProvider(content, p) ==
    LET own == ModelsOf(content, p)
    IN  FlattenSeq([i \in DOMAIN own |-> OfName(own, own[i].name)])

\* The first that has the name, or none: a sequence of one or none.
GetModelInfo(content, name) ==
    LET named == OfName(GetAllModels(content), name)
    IN  SubSeq(named, 1, IF named = <<>> THEN 0 ELSE 1)

GetProviderList(content) == Filtered(ProviderOrder, DOMAIN content.providers)

GetSupportedCapabilities(content) ==
    UNION {DOMAIN content.providers[p].models : p \in Range(GetProviderList(content))}

GetCurrentModelForCapability(content, t) == GetModelName(content, GetDefaultProvider(content, t), t)

-----------------------------------------------------------------------------
\* Every variable has its type, and a file is torn only by a write that has
\* not ended, or whose tool was killed.
ConfigTypeOK ==
    /\ file.state \in {"whole", "torn", "absent"}
    /\ \A c \in {file.content, first, root} : IsContent(c)
    /\ file.state # "whole" => file.content = EmptyContent
    /\ tool \in {"closed", "idle", "writing"}
    /\ \A t \in Type : \A i \in DOMAIN models[t] :
        /\ models[t][i].provider \in Provider
        /\ \A k \in DOMAIN models[t][i].params : models[t][i].params[k] \in TextOf(k)
    /\ changes \in 0..MaxChanges
    /\ request.at \in {"none", "chosen", "ready", "invalid"}
    /\ tool = "writing" => file.state = "torn"

\* In the running tool only an edit leaves a default whose provider has no
\* model of the type: adding, deleting and choosing keep the two in step
\* (configmanager.cpp:256).
Dangling(t) ==
    t \in DOMAIN defaults /\ \A i \in DOMAIN models[t] : models[t][i].provider # defaults[t]
DefaultsStayListed ==
    [][\A t \in Type : tool = "idle" /\ ~Dangling(t) /\ Dangling(t)' =>
        \/ \E i \in DOMAIN models[t] : EditModel(t, i)
        \/ Open]_configVars

\* The tool cannot give a key to a provider that had none in the file it was
\* started with: the parameters of an unknown provider are never offered
\* (configmanager.cpp:367).
NoNewKeys ==
    \A p \in DOMAIN file.content.providers :
        "api_key" \in DOMAIN file.content.providers[p].keys =>
            p \in DOMAIN first.providers /\ "api_key" \in DOMAIN first.providers[p].keys

\* An edited key is in the file, unless another model of the provider brought
\* its own copy of the old one (configmanager.cpp:68).
EditReachesFile ==
    edited # <<>> /\ tool = "idle" =>
        LET p == models[edited[1]][edited[2]].provider
            Keys == IF p \in DOMAIN file.content.providers THEN file.content.providers[p].keys
                    ELSE NoParams
        IN  \/ "api_key" \in DOMAIN Keys /\ Keys["api_key"] = edited[3]
            \/ \E t \in Type : \E i \in DOMAIN models[t] :
                    /\ <<t, i>> # <<edited[1], edited[2]>>
                    /\ models[t][i].provider = p /\ "api_key" \in DOMAIN models[t][i].params
                    /\ models[t][i].params["api_key"] # edited[3]

\* What a restarted tool lists: of every type the providers with a named
\* model, each once and with one set of parameters; a model that was given no
\* name is gone (configmanager.cpp:69).
SavedModelsReturn ==
    tool = "writing" =>
        LET again == Parsed(root)
        IN  /\ Rendered(again, defaults).providers =
                 [p \in {q \in DOMAIN root.providers : root.providers[q].models # NoParams} |->
                    root.providers[p]]
            /\ \A t \in Type : 
                /\ {again[t][i].provider : i \in DOMAIN again[t]} =
                     {models[t][i].provider : i \in {j \in DOMAIN models[t] :
                                                        "model" \in DOMAIN models[t][j].params}}
                /\ \A i, j \in DOMAIN again[t] :
                        again[t][i].provider = again[t][j].provider => i = j

\* A request for the default model asks for a model without a name only when
\* the file changed between its two readings, or the default's provider had
\* no model of the type (modelcenter.cpp:36).
RequestsAreServed ==
    request.at = "ready" /\ request.interface.model \in {"", NoName} =>
        request.changed \/ ~request.served \/ request.named

\* The model the information service names as current is the one a request
\* reading the same file is given (modelinfodbus.cpp:193).
CurrentModelIsUsed ==
    request.at = "none" => \A t \in Type :
        LET current == GetCurrentModelForCapability(file.content, t)
            made == CreateInterface(GetDefaultProvider(file.content, t), t, file.content)
        IN  current # NoName => made = NoInterface \/ made.model = current

\* A provider's key is sent as the key and never as the address of the
\* request, except by openai's function calling (openaiprovider.cpp:133).
KeysStayKeys ==
    request.at = "ready" /\ request.interface.url \in KeyText =>
        request.provider = "openai" /\ request.type = "FunctionCalling"

\* The lists of the information service agree: per capability and per
\* provider they name the models of the whole list, and a provider's model is
\* repeated only when several types share it (modelinfodbus.cpp:263). Every
\* capability on offer has a model, and a listed provider without any has lost
\* its models to the tool; what is told of a name may be another provider's.
ModelListsAgree ==
    LET all == GetAllModels(file.content)
    IN  request.at = "none" =>
        /\ IsInjective(all)
        /\ \A t \in Type : Range(GetModelsForCapability(file.content, t)) =
                            {m \in Range(all) : m.capability = t}
        /\ \A p \in Provider :
            LET own == GetModelsForProvider(file.content, p)
            IN  /\ Range(own) = {m \in Range(all) : m.provider = p}
                /\ ~IsInjective(own) => \E m, n \in Range(own) : m # n /\ m.name = n.name
        /\ GetSupportedCapabilities(file.content) = {m.capability : m \in Range(all)}
        /\ \A p \in Range(GetProviderList(file.content)) :
              (\E m \in Range(all) : m.provider = p) \/ file.content # first
        /\ \A m \in Range(all) :
              LET told == GetModelInfo(file.content, m.name)
              IN  told # <<>> /\ (told[1].provider # m.provider =>
                    \E n \in Range(all) : n.provider = told[1].provider /\ n.name = m.name)

\* What the tool saves is what the user edited and what it lists again, but for
\* the keys and names it cannot keep.
EditsAreKept ==
    [](ConfigTypeOK /\ NoNewKeys /\ EditReachesFile /\ SavedModelsReturn) /\ DefaultsStayListed

\* The interface a request is given fits the file and what the information
\* service says of it.
InterfacesFitFile == RequestsAreServed /\ CurrentModelIsUsed /\ KeysStayKeys /\ ModelListsAgree
=============================================================================
