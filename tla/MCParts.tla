------------------------------- MODULE MCParts -------------------------------
(* The components that share no state at the grain they are modelled at,    *)
(* each in a run of its own from the common initial state. The three that   *)
(* rewrite days of receptions touch different tables, or the same through   *)
(* what each module abstracts of the others.                                *)
EXTENDS StationSeries, HistoryLoads, Conversion, Dedupe, StreamSlots, StationNames, MCRegisters,
        VesselReads, CoverageTiles, UsageRings, OwnVessels, StaticStates,
        RawReplay, MqttSession

VARIABLE part  \* the component that runs

vars == <<part, seriesVars, loadsVars, convertVars, dedupeVars, slotVars,
          namesVars, registerVars, readVars, coverageVars, ringVars, ownVars, staticsVars, rawVars, mqttVars>>

MCDayOf == [h \in Hours |-> h \div 24]

\* A station that posts and publishes, bodies that look alike by every way in.
Input(via, source, shape, buffered) == [via |-> via, source |-> source, shape |-> shape, buffered |-> buffered]
MCInputs == {Input("receive", "station:s", "envelope", FALSE), Input("receive", "station:s", "line", FALSE),
             Input("publish", "station:s", "envelope", TRUE), Input("socket", "udp:u", "envelope", FALSE),
             Input("feed", "aishub", "own", FALSE)}

Init ==
  /\ part \in {"series", "loads", "conversion", "dedupe", "slots", "names", "registers",
               "reads", "coverage", "rings", "own", "statics", "raw", "mqtt"}
  /\ SeriesInit /\ LoadsInit /\ ConvertInit /\ DedupeInit /\ SlotsInit /\ NamesInit
  /\ RegistersInit /\ ReadsInit /\ CoverageInit /\ RingsInit /\ OwnInit /\ StaticsInit
  /\ RawInit /\ MqttInit
  /\ part = "coverage" \/ \A s \in Heards : cells[s] = CellsMax

\* One component steps, the others stand still.
Next ==
  /\ UNCHANGED part
  /\ \/ part = "series" /\ SeriesNext
     \/ part # "series" /\ UNCHANGED seriesVars
  /\ \/ part = "loads" /\ LoadsNext
     \/ part # "loads" /\ UNCHANGED loadsVars
  /\ \/ part = "conversion" /\ ConvertNext
     \/ part # "conversion" /\ UNCHANGED convertVars
  /\ \/ part = "dedupe" /\ DedupeNext
     \/ part # "dedupe" /\ UNCHANGED dedupeVars
  /\ \/ part = "slots" /\ SlotsNext
     \/ part # "slots" /\ UNCHANGED slotVars
  /\ \/ part = "names" /\ NamesNext
     \/ part # "names" /\ UNCHANGED namesVars
  /\ \/ part = "registers" /\ RegistersNext
     \/ part # "registers" /\ UNCHANGED registerVars
  /\ \/ part = "reads" /\ ReadsNext
     \/ part # "reads" /\ UNCHANGED readVars
  /\ \/ part = "coverage" /\ CoverageNext
     \/ part # "coverage" /\ UNCHANGED coverageVars
  /\ \/ part = "rings" /\ RingsNext
     \/ part # "rings" /\ UNCHANGED ringVars
  /\ \/ part = "own" /\ OwnNext
     \/ part # "own" /\ UNCHANGED ownVars
  /\ \/ part = "statics" /\ StaticsNext
     \/ part # "statics" /\ UNCHANGED staticsVars
  /\ \/ part = "raw" /\ RawNext
     \/ part # "raw" /\ UNCHANGED rawVars
  /\ \/ part = "mqtt" /\ MqttNext
     \/ part # "mqtt" /\ UNCHANGED mqttVars

\* Only the series and the registers promise progress: SeriesFairness and
\* RegistersFairness, each where it runs.
Here(c, action) == part = c /\ action
PartsFairness ==
  /\ WF_seriesVars(Here("series", Query)) /\ WF_seriesVars(Here("series", Backfill))
  /\ \A w \in Workers : WF_seriesVars(Here("series", Work(w)))
  /\ \A h \in Hours : WF_seriesVars(Here("series", Age(h)))
  /\ WF_seriesVars(Here("series", \E f \in flying : Land(f))) /\ WF_seriesVars(Here("series", Delete))
  /\ \A r \in Whole : WF_registerVars(Here("registers", StartSync(r) \/ Fetch(r) \/ Replace(r)))
  /\ WF_registerVars(Here("registers", CheckListing \/ ReadLicences \/ AskService \/ ReplaceListing
                                         \/ StartRound("uscg") \/ AskVessel("uscg")))
  /\ WF_registerVars(Here("registers", StartRound("ised") \/ AskVessel("ised")))

Spec == Init /\ [][Next]_vars /\ PartsFairness

\* Where the series runs, every hour comes to be served as its receptions are.
SeriesCatchesUpHere == part = "series" => SeriesCatchesUp

\* Where the registers run, what is due is served, whatever failed, was
\* cut short or was interrupted: registers in the end stored, vessels asked about.
DueIsServedHere == part = "registers" => DueIsServed
=============================================================================
