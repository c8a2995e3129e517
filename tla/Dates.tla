------------------------------- MODULE Dates -------------------------------
(***************************************************************************)
(* How dates are read and shown (utils/dates.py, Event.natural_datetime).  *)
(*                                                                         *)
(* A moment is a number of hours (UTC), a day has DayLength of them, and a *)
(* timezone is how far it is ahead.  What is shown is abstracted to the    *)
(* day and the hour it names; where the code fails, that is nothing.       *)
(***************************************************************************)
EXTENDS Integers, Sequences, FiniteSets

CONSTANTS
    DayLength,   \* hours of a day
    Days,        \* the days that moments fall on
    Zones,       \* timezones of users
    Chunks,      \* the units of format_timedelta, the largest first
    MaxSince,    \* the longest time that has passed
    MaxEntries,  \* the longest list that is grouped
    Nothing      \* a time, a date or a field that is not there

VARIABLES asked, told   \* told is <<>>, or <<what became of `asked`>>

dateVars == <<asked, told>>

-----------------------------------------------------------------------------
Moments == {d * DayLength + h : d \in Days, h \in 0 .. DayLength - 1}
Local(moment, zone) == moment + zone
DayOf(moment) == moment \div DayLength
HourOf(moment) == moment % DayLength

\* What names a day: a word, or the date itself.
Word(behind) == [is |-> "word", behind |-> behind]
Spelled(day) == [is |-> "date", day |-> day]
Named(behind, day) == IF -1 <= behind /\ behind <= 1 THEN Word(behind) ELSE Spelled(day)
\* The day a reader takes it for, on the day `today`.
Meant(name, today) == IF name.is = "word" THEN today - name.behind ELSE name.day

\* natural_date: whole days that have passed since the moment; a date is taken for
\* midnight UTC.
NaturalDate(now, value, zone) == Named(DayOf(now - value), DayOf(Local(value, zone)))
NaturalDay(now, day) == Named(DayOf(now - day * DayLength), day)

\* format_specific_datetime: calendar days of the user, but the date is the UTC one.
SpecificDatetime(now, value, zone) ==
    [name |-> Named(DayOf(Local(now, zone)) - DayOf(Local(value, zone)), DayOf(value)),
     hour |-> HourOf(Local(value, zone))]

\* format_datetime
Datetime(moment, zone) == [day |-> DayOf(Local(moment, zone)), hour |-> HourOf(Local(moment, zone))]

\* format_timedelta: the largest unit that has passed, and the next smaller one.
Timedelta(since) ==
    IF since <= 0 THEN <<>>
    ELSE LET i == CHOOSE j \in DOMAIN Chunks :
                    /\ since \div Chunks[j] # 0
                    /\ \A k \in 1 .. j - 1 : since \div Chunks[k] = 0
             count == since \div Chunks[i]
             rest == IF i < Len(Chunks) THEN (since - count * Chunks[i]) \div Chunks[i + 1] ELSE 0
         IN IF rest = 0 THEN <<[count |-> count, of |-> i]>>
            ELSE <<[count |-> count, of |-> i], [count |-> rest, of |-> i + 1]>>

\* parse_iso8601: the fields that are there and not zero are the arguments of datetime,
\* in their order; the distance to UTC is added where it is ahead.  Nothing is read if they
\* are too few or out of range.
Fields(iso) == SelectSeq(iso.fields, LAMBDA field : field \notin {Nothing, 0})
ParseIso(iso) ==
    LET args == Fields(iso)
        Arg(i) == IF i <= Len(args) THEN args[i] ELSE 0 IN
    IF Len(args) < 3 \/ Arg(4) >= DayLength \/ Arg(5) >= 60 THEN {}
    ELSE {[day |-> Arg(3), hour |-> Arg(4) + iso.ahead, minute |-> Arg(5)]}
\* What the text says.
Written(iso) ==
    LET At(i) == IF iso.fields[i] = Nothing THEN 0 ELSE iso.fields[i] IN
    {[day |-> At(3), hour |-> At(4) - iso.ahead, minute |-> At(5)]}

\* group_by_day: an entry of a day that was met before goes to the last group.
GroupByDay(entries, zone) ==
    LET Key(i) == DayOf(Local(entries[i], zone))
        groups[n \in 0 .. Len(entries)] ==
            IF n = 0 THEN <<>>
            ELSE LET left == groups[n - 1]
                     all == IF \E g \in DOMAIN left : left[g].day = Key(n) THEN left
                            ELSE Append(left, [day |-> Key(n), entries |-> {}])
                 IN [all EXCEPT ![Len(all)].entries = @ \union {n}]
    IN groups[Len(entries)]

\* Event.natural_datetime: an event without a time is not shown at all, for the time is
\* put together with the date first.
Start(event) == event.date * DayLength + event.time
Day(event) == IF event.enddate = Nothing THEN event.date ELSE event.enddate
\* An hour that is not given is the first one, and so is midnight, which is false in Python 2.
End(event) ==
    Day(event) * DayLength + (IF event.endtime \in {Nothing, 0} THEN event.time ELSE event.endtime)
NaturalDatetime(event, zone) ==
    IF event.time = Nothing THEN <<>>
    ELSE IF End(event) <= Start(event) THEN <<Datetime(Start(event), zone)>>
    ELSE IF End(event) - Start(event) < DayLength
    THEN <<Datetime(Start(event), zone),
           [hour |-> HourOf(Local(event.date * DayLength + HourOf(End(event)), zone))]>>
    ELSE <<Datetime(Start(event), zone), Datetime(End(event), zone)>>

-----------------------------------------------------------------------------
Hours == 0 .. DayLength - 1
Questions ==
    [kind : {"moment"}, now : Moments, value : Moments, zone : Zones]
    \union [kind : {"since"}, since : -1 .. MaxSince]
    \union [kind : {"iso"}, ahead : {-1, 0, 1},
            fields : {<<1, 1, d, h, m>> : d \in {Nothing, 1}, h \in Hours \union {Nothing},
                                          m \in {Nothing, 0, 1, DayLength, 59}}]
    \union [kind : {"list"}, zone : Zones,
            entries : {s \in UNION {[1 .. n -> Moments] : n \in 0 .. MaxEntries} :
                         \A i, j \in DOMAIN s : i < j => s[i] >= s[j]}]
    \union [kind : {"event"}, zone : Zones, date : Days, time : Hours \union {Nothing},
            enddate : Days \union {Nothing}, endtime : Hours \union {Nothing}]

DateInit == asked \in Questions /\ told = <<>>

Tell ==
    /\ told = <<>>
    /\ told' = <<CASE asked.kind = "moment" ->
                        [natural |-> NaturalDate(asked.now, asked.value, asked.zone),
                         day |-> NaturalDay(asked.now, DayOf(asked.value)),
                         specific |-> SpecificDatetime(asked.now, asked.value, asked.zone)]
                   [] asked.kind = "since" -> Timedelta(asked.since)
                   [] asked.kind = "iso" -> ParseIso(asked)
                   [] asked.kind = "list" -> GroupByDay(asked.entries, asked.zone)
                   [] asked.kind = "event" -> NaturalDatetime(asked, asked.zone)>>
    /\ UNCHANGED asked

DateNext == Tell

-----------------------------------------------------------------------------
Told(kind) == told # <<>> /\ asked.kind = kind

\* The day a date is shown under is the one it falls on where the user lives, or the next
\* one; it is wrong exactly if fewer whole days have passed than nights (the word), or if
\* UTC has another day (the date of format_specific_datetime).
DaysNamed ==
    Told("moment") =>
      LET today == DayOf(Local(asked.now, asked.zone))
          day == DayOf(Local(asked.value, asked.zone))
          natural == told[1].natural
          specific == told[1].specific.name IN
      /\ Meant(natural, today) \in {day, day + 1}
      /\ Meant(natural, today) # day =>
           natural.is = "word" /\ HourOf(Local(asked.now, asked.zone)) < HourOf(Local(asked.value, asked.zone))
      /\ specific.is = "word" => Meant(specific, today) = day
      /\ specific.is = "date" => (Meant(specific, today) = day <=> day = DayOf(asked.value))
      /\ Meant(told[1].day, DayOf(asked.now)) = DayOf(asked.value)

\* The two units say as much of the time that has passed as they can: what they leave out
\* is shorter than the smaller one.
Amount(part) == part.count * Chunks[part.of]
TimePassed ==
    Told("since") /\ asked.since > 0 =>
      LET parts == told[1]
          said == IF Len(parts) = 2 THEN Amount(parts[1]) + Amount(parts[2]) ELSE Amount(parts[1])
          i == parts[1].of IN
      /\ said <= asked.since
      /\ asked.since - said < (IF i = Len(Chunks) THEN Chunks[i] ELSE Chunks[i + 1])
      /\ Len(parts) = 2 => Amount(parts[2]) < Chunks[i]

\* A date is read as it is written if no zero stands in front of another number and its
\* timezone is UTC, and a wrong moment or none is read otherwise.
ZeroBefore(iso) ==
    \E i, j \in DOMAIN iso.fields : i < j /\ iso.fields[i] = 0 /\ iso.fields[j] \notin {0, Nothing}
DatesRead ==
    Told("iso") /\ asked.fields[3] # Nothing /\ (asked.fields[4] = Nothing => asked.fields[5] = Nothing) =>
      (told[1] = Written(asked) <=> ~ZeroBefore(asked) /\ asked.ahead = 0)

\* Entries sorted by their date are shown once, each under its own day, the newest day first.
DaysGrouped ==
    Told("list") =>
      LET groups == told[1] IN
      /\ \A g, h \in DOMAIN groups : g < h => groups[g].day > groups[h].day
      /\ \A i \in DOMAIN asked.entries :
           {g \in DOMAIN groups : i \in groups[g].entries}
             = {g \in DOMAIN groups : groups[g].day = DayOf(Local(asked.entries[i], asked.zone))}
      /\ \A i \in DOMAIN asked.entries : \E g \in DOMAIN groups : i \in groups[g].entries

\* An event that has a time is shown from its beginning to its end, and the end is left
\* out only if the event has none after its beginning; whoever sees no second day takes
\* the end for the next such hour.  An event that ends at midnight is shown as one for which
\* no hour of its end is known.
EventsShown ==
    Told("event") /\ asked.time # Nothing =>
      LET shown == told[1]
          begin == Local(Start(asked), asked.zone)
          hour == IF asked.endtime = Nothing \/ asked.endtime = 0 THEN asked.time ELSE asked.endtime
          end == Local(Day(asked) * DayLength + hour, asked.zone) IN
      /\ shown[1] = [day |-> DayOf(begin), hour |-> HourOf(begin)]
      /\ Len(shown) = 1 <=> end <= begin
      /\ Len(shown) = 2 =>
           IF end - begin < DayLength THEN shown[2] = [hour |-> HourOf(end)]
           ELSE shown[2] = [day |-> DayOf(end), hour |-> HourOf(end)]

DatesTrue == DaysNamed /\ TimePassed /\ DatesRead /\ DaysGrouped /\ EventsShown
=============================================================================
