-------------------------- MODULE StandardProperties --------------------------
(***************************************************************************)
(* What properties an object of each type may have: the lists of           *)
(* src/object/standard_properties.rs for the types the crate can host, as  *)
(* sets built from what they have in common.  The lists of the other types *)
(* are asked of foreign devices only and are left out.                     *)
(***************************************************************************)

UNIVERSAL == {"ObjectIdentifier", "ObjectName", "ObjectType", "PropertyList"}

Common ==
  UNIVERSAL \cup {"Description", "AuditLevel", "AuditableOperations", "Tags", "ProfileLocation", "ProfileName"}

Alarming ==
  {"StatusFlags", "Reliability", "EventState", "EventEnable", "AckedTransitions", "NotifyType",
   "NotificationClass", "EventTimeStamps", "EventMessageTexts", "EventMessageTextsConfig",
   "EventDetectionEnable", "ReliabilityEvaluationInhibit"}

Point ==
  Common \cup Alarming
    \cup {"PresentValue", "OutOfService", "TimeDelay", "TimeDelayNormal", "EventAlgorithmInhibit",
          "EventAlgorithmInhibitRef"}

Commandable ==
  {"PriorityArray", "RelinquishDefault", "CurrentCommandPriority", "ValueSource", "ValueSourceArray",
   "LastCommandTime", "AuditPriorityFilter"}

Analog ==
  Point \cup {"Units", "MinPresValue", "MaxPresValue", "Resolution", "CovIncrement", "HighLimit",
              "LowLimit", "Deadband", "LimitEnable"}
ANALOG_INPUT ==
  Analog \cup {"DeviceType", "UpdateInterval", "InterfaceValue", "FaultHighLimit", "FaultLowLimit"}
ANALOG_OUTPUT == Analog \cup Commandable \cup {"CommandTimeArray", "DeviceType", "InterfaceValue"}
ANALOG_VALUE == Analog \cup Commandable \cup {"CommandTimeArray", "FaultHighLimit", "FaultLowLimit"}

Binary ==
  Point \cup {"ActiveText", "InactiveText", "ChangeOfStateCount", "ChangeOfStateTime",
              "TimeOfStateCountReset", "ElapsedActiveTime", "TimeOfActiveTimeReset"}
Timed == {"MinimumOnTime", "MinimumOffTime", "CommandTimeArray"}
BINARY_INPUT == Binary \cup {"DeviceType", "Polarity", "InterfaceValue", "AlarmValue"}
BINARY_OUTPUT ==
  Binary \cup Commandable \cup Timed \cup {"DeviceType", "Polarity", "InterfaceValue", "FeedbackValue"}
BINARY_VALUE == Binary \cup Commandable \cup Timed \cup {"AlarmValue"}

Multistate == Point \cup {"NumberOfStates", "StateText"}
MULTISTATE_INPUT == Multistate \cup {"DeviceType", "InterfaceValue", "AlarmValues", "FaultValues"}
MULTISTATE_OUTPUT == Multistate \cup Commandable \cup {"DeviceType", "InterfaceValue", "FeedbackValue"}
MULTISTATE_VALUE ==
  Multistate \cup Commandable \cup {"CommandTimeArray", "AlarmValues", "FaultValues"}

CALENDAR == Common \cup {"PresentValue", "DateList"}

DEVICE ==
  Common \cup Alarming
    \cup {"SystemStatus", "VendorName", "VendorIdentifier", "ModelName", "FirmwareRevision",
          "ApplicationSoftwareVersion", "Location", "SerialNumber", "DeviceUuid", "DeployedProfileLocation",
          "ProtocolVersion", "ProtocolRevision", "ProtocolServicesSupported", "ProtocolObjectTypesSupported",
          "ObjectList", "StructuredObjectList", "DatabaseRevision", "ConfigurationFiles",
          "MaxApduLengthAccepted", "SegmentationSupported", "MaxSegmentsAccepted", "ApduTimeout",
          "ApduSegmentTimeout", "NumberOfApduRetries", "MaxManager", "MaxInfoFrames",
          "DeviceAddressBinding", "ActiveCovSubscriptions", "ActiveCovMultipleSubscriptions",
          "VtClassesSupported", "ActiveVtSessions", "AuditNotificationRecipient"}
    \cup {"LocalDate", "LocalTime", "UtcOffset", "DaylightSavingsStatus", "AlignIntervals", "IntervalOffset",
          "TimeSynchronizationInterval", "TimeSynchronizationRecipients", "UtcTimeSynchronizationRecipients",
          "LastRestartReason", "TimeOfDeviceRestart", "RestartNotificationRecipients", "LastRestoreTime",
          "RestoreCompletionTime", "RestorePreparationTime", "BackupAndRestoreState",
          "BackupFailureTimeout", "BackupPreparationTime"}

FILE ==
  Common \cup {"FileType", "FileSize", "ModificationDate", "Archive", "ReadOnly", "FileAccessMethod", "RecordCount"}

NOTIFICATION_CLASS ==
  Common \cup Alarming \cup {"PresentValue", "Priority", "AckRequired", "RecipientList"}

SCHEDULE ==
  Common \cup Alarming
    \cup {"PresentValue", "OutOfService", "EffectivePeriod", "WeeklySchedule", "ExceptionSchedule",
          "ScheduleDefault", "ListOfObjectPropertyReferences", "PriorityForWriting"}

standard_properties ==
  [AnalogInput |-> ANALOG_INPUT, AnalogOutput |-> ANALOG_OUTPUT, AnalogValue |-> ANALOG_VALUE,
   BinaryInput |-> BINARY_INPUT, BinaryOutput |-> BINARY_OUTPUT, BinaryValue |-> BINARY_VALUE,
   MultiStateInput |-> MULTISTATE_INPUT, MultiStateOutput |-> MULTISTATE_OUTPUT,
   MultiStateValue |-> MULTISTATE_VALUE, Calendar |-> CALENDAR, Device |-> DEVICE, File |-> FILE,
   NotificationClass |-> NOTIFICATION_CLASS, Schedule |-> SCHEDULE]

=============================================================================
